---- MODULE Spec2Model ----
(***************************************************************************)
(* OneSig (Solana program): the multisig roster, the threshold signature   *)
(* check, the Merkle leaf/proof check and the execute_transaction state    *)
(* machine, modelled from programs/onesig/src.                             *)
(*                                                                         *)
(* Values.  An Address (20 bytes) and a Pubkey (32 bytes) are naturals, 0  *)
(* being Address::default() / Pubkey::default().  A byte string is a       *)
(* sequence of naturals.  A keccak digest is a term [b1, h, b2] standing   *)
(* for keccak(b1 || h[1] || ... || h[n] || b2): keccak is taken to be      *)
(* collision free, so two digests are equal exactly when their preimages   *)
(* are.  An instruction result is the name of its OneSigError, or "Ok".    *)
(***************************************************************************)
EXTENDS Integers, Sequences, FiniteSets, TLC

VARIABLES
    initialized,         \* the OneSigState account exists (init_one_sig succeeded)
    one_sig_state,       \* the OneSigState account of the instance
    merkle_root_states,  \* the MerkleRootState accounts of the instance, one per root (PDA)
    signer_account,      \* the one_sig_signer PDA: lamports, owner, data_is_empty
    now,                 \* Clock::get()?.unix_timestamp
    last,                \* the latest instruction and the Result it returned
    tracked,             \* history: one successful execution, remembered
    call,                \* arguments of a library call made outside an instance
    ret                  \* the Result of that call

vars == <<initialized, one_sig_state, merkle_root_states, signer_account, now,
          last, tracked, call, ret>>

(***************************************************************************)
(* constants.rs                                                            *)
(***************************************************************************)
SIGNERS_MAX_LEN == 20
EXECUTORS_MAX_LEN == 277
MAX_THRESHOLD == 13
SIGNATURE_BYTES_LEN == 65
MERKLE_LEAF_ENCODING_VERSION == 1

ZeroAddress == 0
DefaultPubkey == 0

Ok == "Ok"

(***************************************************************************)
(* Helpers over sequences.                                                 *)
(***************************************************************************)
Range(s) == {s[i] : i \in DOMAIN s}

Contains(s, x) == \E i \in DOMAIN s : s[i] = x

\* Iterator::position: the first index holding x, 0 when there is none.
Position(s, x) ==
    IF Contains(s, x) THEN CHOOSE i \in DOMAIN s : s[i] = x /\ \A j \in 1..(i - 1) : s[j] # x
    ELSE 0

\* Vec::remove(index): the elements after index shift down by one.
RemoveAt(s, index) == [i \in 1..(Len(s) - 1) |-> IF i < index THEN s[i] ELSE s[i + 1]]

NoDuplicates(s) == \A i, j \in DOMAIN s : s[i] = s[j] => i = j

Upto(n) == [i \in 1..n |-> i]

(***************************************************************************)
(* state.rs: Multisig.  A mutator works on the in-memory struct (&mut      *)
(* self) and returns a Result: [err, ms] is the Result and the struct as   *)
(* the call leaves it.                                                     *)
(***************************************************************************)
add_signer_no_dup_check(ms, signer) ==
    IF signer = ZeroAddress THEN [err |-> "InvalidSigner", ms |-> ms]
    ELSE IF ~(Len(ms.signers) < SIGNERS_MAX_LEN) THEN [err |-> "InvalidSignersLen", ms |-> ms]
    ELSE [err |-> Ok, ms |-> [ms EXCEPT !.signers = Append(@, signer)]]

\* The threshold raised with the signers (for comparison).
add_signer_raising_threshold(ms, signer) ==
    IF signer = ZeroAddress THEN [err |-> "InvalidSigner", ms |-> ms]
    ELSE IF ~(Len(ms.signers) < SIGNERS_MAX_LEN) THEN [err |-> "InvalidSignersLen", ms |-> ms]
    ELSE IF Contains(ms.signers, signer) THEN [err |-> "DuplicateSigners", ms |-> ms]
    ELSE [err |-> Ok, ms |-> [ms EXCEPT !.signers = Append(@, signer),
                                        !.threshold = @ + 1]]

add_signer(ms, signer) ==
    IF signer = ZeroAddress THEN [err |-> "InvalidSigner", ms |-> ms]
    ELSE IF ~(Len(ms.signers) < SIGNERS_MAX_LEN) THEN [err |-> "InvalidSignersLen", ms |-> ms]
    ELSE IF Contains(ms.signers, signer) THEN [err |-> "DuplicateSigners", ms |-> ms]
    ELSE [err |-> Ok, ms |-> [ms EXCEPT !.signers = Append(@, signer)]]

\* The signer is removed first and the threshold is checked afterwards: on
\* ThresholdExceedsSigners the in-memory list is already one shorter.
remove_signer(ms, signer) ==
    LET index == Position(ms.signers, signer) IN
    IF index = 0 THEN [err |-> "MissingSigner", ms |-> ms]
    ELSE LET removed == [ms EXCEPT !.signers = RemoveAt(@, index)] IN
         IF ~(Len(removed.signers) >= ms.threshold)
         THEN [err |-> "ThresholdExceedsSigners", ms |-> removed]
         ELSE [err |-> Ok, ms |-> removed]

\* The signer count checked before the range (for comparison).
set_threshold_count_first(ms, threshold) ==
    IF ~(threshold <= Len(ms.signers)) THEN [err |-> "ThresholdExceedsSigners", ms |-> ms]
    ELSE IF ~(threshold > 0 /\ threshold <= MAX_THRESHOLD)
    THEN [err |-> "InvalidThreshold", ms |-> ms]
    ELSE [err |-> Ok, ms |-> [ms EXCEPT !.threshold = threshold]]

\* The threshold assigned before it is validated (for comparison).
set_threshold_assign_first(ms, threshold) ==
    LET assigned == [ms EXCEPT !.threshold = threshold] IN
    IF ~(threshold > 0 /\ threshold <= MAX_THRESHOLD)
    THEN [err |-> "InvalidThreshold", ms |-> assigned]
    ELSE IF ~(threshold <= Len(ms.signers))
    THEN [err |-> "ThresholdExceedsSigners", ms |-> assigned]
    ELSE [err |-> Ok, ms |-> assigned]

set_threshold(ms, threshold) ==
    IF ~(threshold > 0 /\ threshold <= MAX_THRESHOLD) THEN [err |-> "InvalidThreshold", ms |-> ms]
    ELSE IF ~(threshold <= Len(ms.signers)) THEN [err |-> "ThresholdExceedsSigners", ms |-> ms]
    ELSE [err |-> Ok, ms |-> [ms EXCEPT !.threshold = threshold]]

(***************************************************************************)
(* state.rs: Executors.  [err, ex] as for Multisig.                        *)
(***************************************************************************)
add_executor(ex, executor) ==
    IF executor = DefaultPubkey THEN [err |-> "InvalidExecutor", ex |-> ex]
    ELSE IF ~(Len(ex.executors) < EXECUTORS_MAX_LEN) THEN [err |-> "InvalidExecutorsLen", ex |-> ex]
    ELSE IF Contains(ex.executors, executor) THEN [err |-> "DuplicateExecutor", ex |-> ex]
    ELSE [err |-> Ok, ex |-> [ex EXCEPT !.executors = Append(@, executor)]]

remove_executor_unchecked(ex, executor) ==
    LET index == Position(ex.executors, executor) IN
    IF index = 0 THEN [err |-> "ExecutorNotFound", ex |-> ex]
    ELSE [err |-> Ok, ex |-> [ex EXCEPT !.executors = RemoveAt(@, index)]]

\* As remove_signer: the executor is removed before the emptiness check.
remove_executor(ex, executor) ==
    LET index == Position(ex.executors, executor) IN
    IF index = 0 THEN [err |-> "ExecutorNotFound", ex |-> ex]
    ELSE LET removed == [ex EXCEPT !.executors = RemoveAt(@, index)] IN
         IF ~(~ex.executor_required \/ removed.executors # <<>>)
         THEN [err |-> "EmptyExecutorSet", ex |-> removed]
         ELSE [err |-> Ok, ex |-> removed]

set_executor_required(ex, required) ==
    IF ~(~required \/ ex.executors # <<>>) THEN [err |-> "EmptyExecutorSet", ex |-> ex]
    ELSE [err |-> Ok, ex |-> [ex EXCEPT !.executor_required = required]]

(***************************************************************************)
(* keccak.  Keccak(b1, h, b2) is the digest of b1 || h[1] || ... || b2     *)
(* with b1, b2 byte strings and h a sequence of 32-byte digests.  Hash(n)  *)
(* is a 32-byte value given from outside (a seed, a root nobody built).    *)
(***************************************************************************)
Keccak(b1, h, b2) == [b1 |-> b1, h |-> h, b2 |-> b2]

Hash(n) == Keccak(<<n>>, <<>>, <<>>)

\* Byte j (0 the lowest) of the two's complement of n, for n within 32 bits.
ByteOf(n, j) ==
    IF j <= 3 THEN (n \div (256 ^ j)) % 256 ELSE IF n < 0 THEN 255 ELSE 0

\* u64::to_be_bytes and friends: the w big-endian bytes of n.
to_be_bytes(n, w) == [i \in 1..w |-> ByteOf(n, w - i)]

\* Borsh writes integers little-endian.
to_le_bytes(n, w) == [i \in 1..w |-> ByteOf(n, i - 1)]

(***************************************************************************)
(* types.rs: From<Secp256k1Pubkey> for Address, the low 20 bytes of the    *)
(* keccak of the public key.  A public key is a natural k >= 1; its        *)
(* address is the even number 2k, so odd addresses are addresses nobody    *)
(* holds a key for.                                                        *)
(***************************************************************************)
AddressOf(pubkey) == 2 * pubkey

(***************************************************************************)
(* Signatures.  A 65-byte chunk is [rs, v]: v the recovery byte, rs the    *)
(* 64 bytes (r, s), described by how they were made: [key, msg, par,       *)
(* wellformed] is the signature of secret key `key` over digest `msg`      *)
(* whose recovery id is `par`; wellformed = FALSE is 64 bytes that are no  *)
(* signature at all.  A signature blob is [chunks, rem]: the whole 65-byte *)
(* chunks in order and the number of bytes (0..64) left after them.        *)
(***************************************************************************)
MaxKey == 4

\* secp256k1_recover: the syscall.  With the right digest and recovery id it
\* gives the signer's key; with a wrong digest, or the other recovery id, it
\* gives a key that is nobody's (above MaxKey); recovery ids 2 and 3 and
\* ids above 3 fail, as do 64 bytes that are no signature.
secp256k1_recover(digest, recovery_id, rs) ==
    IF ~rs.wellformed \/ recovery_id \notin {0, 1} THEN [err |-> "RecoverError", pubkey |-> 0]
    ELSE IF digest = rs.msg /\ recovery_id = rs.par THEN [err |-> Ok, pubkey |-> rs.key]
    ELSE [err |-> Ok,
          pubkey |-> MaxKey + 4 * (rs.key - 1) + 2 * (IF digest = rs.msg THEN 0 ELSE 1)
                     + recovery_id + 1]

recover_signer_no_normalize(digest, signature) ==
    LET rec == secp256k1_recover(digest, signature.v, signature.rs) IN
    IF rec.err # Ok THEN [err |-> "FailedSignatureRecovery", pubkey |-> 0] ELSE rec

\* signature.rs: recover_signer.
recover_signer(digest, signature) ==
    LET recovery_id == IF signature.v \in 27..28 THEN signature.v - 27 ELSE signature.v
        rec == secp256k1_recover(digest, recovery_id, signature.rs)
    IN  IF rec.err # Ok THEN [err |-> "FailedSignatureRecovery", pubkey |-> 0] ELSE rec

\* signatures.len()
blob_len(signatures) == SIGNATURE_BYTES_LEN * Len(signatures.chunks) + signatures.rem

\* signatures.chunks(SIGNATURE_BYTES_LEN): the whole chunks, then a short one
\* when bytes are left over.
num_chunks(signatures) == Len(signatures.chunks) + (IF signatures.rem > 0 THEN 1 ELSE 0)

\* The for loop of verify_signatures from chunk i on; calls counts the calls
\* of recover_signer made so far.
RECURSIVE verify_chunks(_, _, _, _, _, _)
verify_chunks(signers, digest, signatures, i, seen_signers, calls) ==
    IF i > num_chunks(signatures) THEN [err |-> Ok, calls |-> calls]
    ELSE IF i > Len(signatures.chunks) THEN [err |-> "InvalidSignatureFormat", calls |-> calls]
    ELSE LET rec == recover_signer(digest, signatures.chunks[i]) IN
         IF rec.err # Ok THEN [err |-> rec.err, calls |-> calls + 1]
         ELSE LET recovered_address == AddressOf(rec.pubkey) IN
              IF ~Contains(signers, recovered_address)
              THEN [err |-> "MissingSigner", calls |-> calls + 1]
              ELSE IF recovered_address \in seen_signers
              THEN [err |-> "DuplicateSigners", calls |-> calls + 1]
              ELSE verify_chunks(signers, digest, signatures, i + 1,
                                 seen_signers \cup {recovered_address}, calls + 1)

\* Variants of verify_signatures with one plausible slip each.
\* Only the first `threshold` chunks are checked (early exit).
verify_signatures_first_threshold(threshold, signers, digest, signatures) ==
    IF ~(threshold > 0) THEN [err |-> "InvalidThreshold", calls |-> 0]
    ELSE IF ~(blob_len(signatures) % SIGNATURE_BYTES_LEN = 0)
    THEN [err |-> "SignatureDataSizeMismatch", calls |-> 0]
    ELSE IF ~(blob_len(signatures) >= threshold * SIGNATURE_BYTES_LEN)
    THEN [err |-> "InsufficientSignatures", calls |-> 0]
    ELSE verify_chunks(signers, digest,
                       [chunks |-> SubSeq(signatures.chunks, 1, threshold), rem |-> 0], 1, {}, 0)

\* The minimum-count check is missing.
verify_signatures_no_minimum(threshold, signers, digest, signatures) ==
    IF ~(threshold > 0) THEN [err |-> "InvalidThreshold", calls |-> 0]
    ELSE IF ~(blob_len(signatures) % SIGNATURE_BYTES_LEN = 0)
    THEN [err |-> "SignatureDataSizeMismatch", calls |-> 0]
    ELSE verify_chunks(signers, digest, signatures, 1, {}, 0)

\* The minimum-count check comes before the size check.
verify_signatures_count_first(threshold, signers, digest, signatures) ==
    IF ~(threshold > 0) THEN [err |-> "InvalidThreshold", calls |-> 0]
    ELSE IF ~(blob_len(signatures) >= threshold * SIGNATURE_BYTES_LEN)
    THEN [err |-> "InsufficientSignatures", calls |-> 0]
    ELSE IF ~(blob_len(signatures) % SIGNATURE_BYTES_LEN = 0)
    THEN [err |-> "SignatureDataSizeMismatch", calls |-> 0]
    ELSE verify_chunks(signers, digest, signatures, 1, {}, 0)

\* Duplicates are found by requiring ascending addresses, as the EVM
\* contract does (signer > lastSigner).
RECURSIVE verify_chunks_ascending(_, _, _, _, _, _)
verify_chunks_ascending(signers, digest, signatures, i, last_signer, calls) ==
    IF i > num_chunks(signatures) THEN [err |-> Ok, calls |-> calls]
    ELSE IF i > Len(signatures.chunks) THEN [err |-> "InvalidSignatureFormat", calls |-> calls]
    ELSE LET rec == recover_signer(digest, signatures.chunks[i]) IN
         IF rec.err # Ok THEN [err |-> rec.err, calls |-> calls + 1]
         ELSE LET recovered_address == AddressOf(rec.pubkey) IN
              IF ~Contains(signers, recovered_address)
              THEN [err |-> "MissingSigner", calls |-> calls + 1]
              ELSE IF recovered_address <= last_signer
              THEN [err |-> "DuplicateSigners", calls |-> calls + 1]
              ELSE verify_chunks_ascending(signers, digest, signatures, i + 1,
                                           recovered_address, calls + 1)

verify_signatures_ascending(threshold, signers, digest, signatures) ==
    IF ~(threshold > 0) THEN [err |-> "InvalidThreshold", calls |-> 0]
    ELSE IF ~(blob_len(signatures) % SIGNATURE_BYTES_LEN = 0)
    THEN [err |-> "SignatureDataSizeMismatch", calls |-> 0]
    ELSE IF ~(blob_len(signatures) >= threshold * SIGNATURE_BYTES_LEN)
    THEN [err |-> "InsufficientSignatures", calls |-> 0]
    ELSE verify_chunks_ascending(signers, digest, signatures, 1, 0, 0)

\* signature.rs: SignatureValidator::verify_signatures.
verify_signatures(threshold, signers, digest, signatures) ==
    IF ~(threshold > 0) THEN [err |-> "InvalidThreshold", calls |-> 0]
    ELSE IF ~(blob_len(signatures) % SIGNATURE_BYTES_LEN = 0)
    THEN [err |-> "SignatureDataSizeMismatch", calls |-> 0]
    ELSE IF ~(blob_len(signatures) >= threshold * SIGNATURE_BYTES_LEN)
    THEN [err |-> "InsufficientSignatures", calls |-> 0]
    ELSE verify_chunks(signers, digest, signatures, 1, {}, 0)

(***************************************************************************)
(* merkle.rs: MerkleValidator::verify_merkle_root, the expiry check, the   *)
(* EIP-712 style digest and the signature check.                           *)
(***************************************************************************)
EIP191_PREFIX_FOR_EIP712 == <<25, 1>>

\* The two 32-byte literals of constants.rs, named by their first byte.
SIGN_MERKLE_ROOT_TYPE_HASH == Hash(100)

DOMAIN_SEPARATOR == Hash(148)

\* The digest without the seed (for comparison).
sign_digest_no_seed(seed, merkle_root, expiry_u128) ==
    Keccak(EIP191_PREFIX_FOR_EIP712,
           <<DOMAIN_SEPARATOR,
             Keccak(<<>>, <<SIGN_MERKLE_ROOT_TYPE_HASH, merkle_root>>,
                    to_be_bytes(0, 16) \o to_be_bytes(expiry_u128, 16))>>,
           <<>>)

\* The digest MerkleValidator::verify_merkle_root builds.
sign_digest(seed, merkle_root, expiry_u128) ==
    Keccak(EIP191_PREFIX_FOR_EIP712,
           <<DOMAIN_SEPARATOR,
             Keccak(<<>>, <<SIGN_MERKLE_ROOT_TYPE_HASH, seed, merkle_root>>,
                    to_be_bytes(0, 16) \o to_be_bytes(expiry_u128, 16))>>,
           <<>>)

\* The boundary excluded: expiry > current_timestamp (for comparison).
MerkleValidator_verify_merkle_root_strict(state, merkle_root, expiry, signatures, current_timestamp) ==
    IF ~(expiry > current_timestamp) THEN "ExpiredMerkleRoot"
    ELSE IF expiry < 0 THEN "panic"
    ELSE verify_signatures(state.multisig.threshold, state.multisig.signers,
                           sign_digest(state.seed, merkle_root, expiry), signatures).err

\* The signatures not looked at (for comparison).
MerkleValidator_verify_merkle_root_unsigned(state, merkle_root, expiry, signatures, current_timestamp) ==
    IF ~(expiry >= current_timestamp) THEN "ExpiredMerkleRoot"
    ELSE IF expiry < 0 THEN "panic"
    ELSE Ok

\* expiry.try_into().unwrap() aborts on a negative expiry: "panic" is no
\* OneSigError.
MerkleValidator_verify_merkle_root(state, merkle_root, expiry, signatures, current_timestamp) ==
    IF ~(expiry >= current_timestamp) THEN "ExpiredMerkleRoot"
    ELSE IF expiry < 0 THEN "panic"
    ELSE verify_signatures(state.multisig.threshold, state.multisig.signers,
                           sign_digest(state.seed, merkle_root, expiry), signatures).err

(***************************************************************************)
(* The state before init_one_sig: no account, shown as the zeroed account  *)
(* Anchor's init hands to InitOneSig::apply.                               *)
(***************************************************************************)
ZeroedState ==
    [one_sig_id |-> 0, seed |-> Hash(0), bump |-> 0, nonce |-> 0,
     multisig |-> [signers |-> <<>>, threshold |-> 0],
     executors |-> [executors |-> <<>>, executor_required |-> FALSE]]

SYSTEM_PROGRAM_ID == 0

NoLast == [op |-> "none", err |-> Ok, replay |-> FALSE, committed |-> "n/a"]

NoCall == [fn |-> "none"]

NoRet == [err |-> "pending", calls |-> 0]

NoTracked == <<>>

InitInstance ==
    /\ initialized = FALSE
    /\ one_sig_state = ZeroedState
    /\ merkle_root_states = {}
    /\ signer_account = [lamports |-> 0, owner |-> SYSTEM_PROGRAM_ID, data_is_empty |-> TRUE]
    /\ now = 0
    /\ last = NoLast
    /\ tracked = NoTracked

instance_vars == <<initialized, one_sig_state, merkle_root_states, signer_account, now,
                   last, tracked>>

(***************************************************************************)
(* SpecSig: verify_signatures called as a library function, as the tests   *)
(* of signature_tests.rs call it.                                          *)
(***************************************************************************)
MaxChunks == 3

SigSeed == Hash(1)

SigDigest == sign_digest(SigSeed, Hash(11), 5)

OtherDigest == sign_digest(SigSeed, Hash(12), 5)

\* The signature of `key` over `msg`; the recovery id of a signature is a bit
\* of its nonce point, here the parity of the key.
Sign(key, msg) == [key |-> key, msg |-> msg, par |-> key % 2, wellformed |-> TRUE]

\* The chunk of a signature with the raw recovery id (0/1).
RawChunk(key, msg) == [rs |-> Sign(key, msg), v |-> key % 2]

\* The same signature with the Ethereum-style recovery byte (27/28).
EthChunk(key, msg) == [rs |-> Sign(key, msg), v |-> 27 + (key % 2)]

SigChunkInputs ==
    {RawChunk(k, SigDigest) : k \in 1..3}
    \cup {EthChunk(1, SigDigest),
          RawChunk(MaxKey, SigDigest),
          RawChunk(1, OtherDigest),
          [rs |-> [key |-> 2, msg |-> SigDigest, par |-> 0, wellformed |-> FALSE], v |-> 0]}

SeqsUpTo(S, n) == UNION {[1..m -> S] : m \in 0..n}

SigCalls ==
    [fn : {"verify_signatures"},
     threshold : 0..3,
     signers : {<<AddressOf(1), AddressOf(2)>>,
                <<AddressOf(3), AddressOf(1)>>,
                <<AddressOf(1), AddressOf(2), AddressOf(3)>>},
     digest : {SigDigest},
     signatures : [chunks : SeqsUpTo(SigChunkInputs, MaxChunks), rem : {0, 1, 64}]]

InitSig ==
    /\ InitInstance
    /\ call \in SigCalls
    /\ ret = NoRet

CallVerifySignatures ==
    /\ call.fn = "verify_signatures"
    /\ ret = NoRet
    /\ ret' = verify_signatures(call.threshold, call.signers, call.digest, call.signatures)
    /\ UNCHANGED <<instance_vars, call>>

NextSig == CallVerifySignatures

SpecSig == InitSig /\ [][NextSig]_vars

(***************************************************************************)
(* Claims about verify_signatures, checked under SpecSig.                  *)
(***************************************************************************)
Returned == ret.err # "pending"

\* Chunk i of the call's blob recovers to a public key.
Recovers(i) == recover_signer(call.digest, call.signatures.chunks[i]).err = Ok

\* The address chunk i recovers to.
ChunkAddress(i) == AddressOf(recover_signer(call.digest, call.signatures.chunks[i]).pubkey)

ChunkIndices == 1..Len(call.signatures.chunks)

\* Every whole chunk recovers to a roster address no earlier chunk gave.
EveryChunkDistinctAuthorized ==
    \A i \in ChunkIndices :
        /\ Recovers(i)
        /\ ChunkAddress(i) \in Range(call.signers)
        /\ \A j \in 1..(i - 1) : ChunkAddress(j) # ChunkAddress(i)

\* The number of distinct roster signers the blob holds a valid signature of.
DistinctValidSigners ==
    Cardinality({ChunkAddress(i) : i \in {k \in ChunkIndices :
                    Recovers(k) /\ ChunkAddress(k) \in Range(call.signers)}})

ValidRoster ==
    /\ call.threshold >= 1
    /\ call.threshold <= 13
    /\ call.threshold <= Len(call.signers)
    /\ NoDuplicates(call.signers)
    /\ ~Contains(call.signers, 0)

\* C5: verify_signatures succeeds if and only if threshold > 0, the blob
\* length is a multiple of 65, the blob holds at least threshold chunks, and
\* every chunk (not only the first threshold ones) recovers to a roster
\* address that differs from the address of every earlier chunk.
C5_VerifySignaturesIff ==
    Returned =>
        (ret.err = Ok <=>
            /\ call.threshold > 0
            /\ blob_len(call.signatures) % 65 = 0
            /\ blob_len(call.signatures) >= call.threshold * 65
            /\ EveryChunkDistinctAuthorized)

\* More valid distinct signatures than the threshold asks for were accepted.
C5_Witness_ExtraAccepted ==
    /\ ret.err = Ok
    /\ Len(call.signatures.chunks) > call.threshold

\* C6 as stated: under a valid roster and threshold, fewer than threshold
\* distinct valid signers are rejected as InsufficientSignatures, and a blob
\* of threshold or more distinct valid authorized signers succeeds.
C6_AsStated ==
    (Returned /\ ValidRoster) =>
        /\ DistinctValidSigners < call.threshold => ret.err = "InsufficientSignatures"
        /\ (/\ call.signatures.rem = 0
            /\ EveryChunkDistinctAuthorized
            /\ Len(call.signatures.chunks) >= call.threshold) => ret.err = Ok

\* C6 amended: under a valid roster and threshold, fewer than threshold
\* distinct valid signers are always rejected; the error is
\* InsufficientSignatures exactly when the blob length is a multiple of 65
\* below threshold * 65, and otherwise the size, recovery, membership or
\* duplicate error; a blob of threshold or more distinct valid authorized
\* signers succeeds.
C6_FewerThanThresholdRejected ==
    (Returned /\ ValidRoster) =>
        /\ DistinctValidSigners < call.threshold =>
               ret.err \in {"InsufficientSignatures", "SignatureDataSizeMismatch",
                            "FailedSignatureRecovery", "MissingSigner", "DuplicateSigners"}
        /\ ret.err = "InsufficientSignatures" <=>
               (/\ blob_len(call.signatures) % 65 = 0
                /\ blob_len(call.signatures) < call.threshold * 65)
        /\ (/\ call.signatures.rem = 0
            /\ EveryChunkDistinctAuthorized
            /\ Len(call.signatures.chunks) >= call.threshold) => ret.err = Ok

\* A blob with one valid signer under threshold 2 was rejected as insufficient.
C6_Witness_Insufficient ==
    /\ ValidRoster
    /\ DistinctValidSigners >= 1
    /\ DistinctValidSigners < call.threshold
    /\ ret.err = "InsufficientSignatures"

Perms(n) == {p \in [1..n -> 1..n] : \A i, j \in 1..n : p[i] = p[j] => i = j}

Permute(s, p) == [i \in 1..Len(s) |-> s[p[i]]]

\* Two chunks of the blob recover to the same signer.
SameSignerTwice ==
    \E i, j \in ChunkIndices : i # j /\ Recovers(i) /\ Recovers(j) /\ ChunkAddress(i) = ChunkAddress(j)

\* C8: the accept/reject result of verify_signatures is the same for every
\* permutation of the blob's chunks and every permutation of the roster; a
\* blob that holds the same signer twice is rejected, as DuplicateSigners
\* when every chunk recovers to a roster address and the size and count
\* checks pass.
C8_OrderIrrelevant ==
    Returned =>
        /\ \A p \in Perms(Len(call.signatures.chunks)) :
               (verify_signatures(call.threshold, call.signers, call.digest,
                    [chunks |-> Permute(call.signatures.chunks, p),
                     rem |-> call.signatures.rem]).err = Ok) <=> (ret.err = Ok)
        /\ \A q \in Perms(Len(call.signers)) :
               (verify_signatures(call.threshold, Permute(call.signers, q), call.digest,
                    call.signatures).err = Ok) <=> (ret.err = Ok)
        /\ SameSignerTwice => ret.err # Ok
        /\ (/\ SameSignerTwice
            /\ \A i \in ChunkIndices : Recovers(i) /\ ChunkAddress(i) \in Range(call.signers)
            /\ call.threshold > 0
            /\ call.signatures.rem = 0
            /\ Len(call.signatures.chunks) >= call.threshold) => ret.err = "DuplicateSigners"

\* A blob whose signers come in descending address order, against the
\* roster's order, was accepted.
C8_Witness_OutOfOrderAccepted ==
    /\ ret.err = Ok
    /\ Len(call.signatures.chunks) >= 2
    /\ ChunkAddress(1) > ChunkAddress(2)
    /\ Position(call.signers, ChunkAddress(1)) > Position(call.signers, ChunkAddress(2))

(***************************************************************************)
(* lib.rs: an instruction handler returns Result<()>.  On Err the          *)
(* instruction fails, and the ledger keeps none of the account writes made *)
(* while it ran (the handler's and those of the programs it invoked); on   *)
(* Ok the accounts are written back.                                       *)
(***************************************************************************)
commit_always(err, before, after) == after

commit(err, before, after) == IF err = Ok THEN after ELSE before

(***************************************************************************)
(* init_one_sig.rs: InitOneSig::apply on the zeroed account.  params is    *)
(* InitOneSigParams.                                                       *)
(***************************************************************************)
find_program_address_bump == 255

\* for signer in signers { multisig.add_signer(*signer)?; }: the signers
\* lo..hi are added in order, stopping at the first error.  The range is
\* split in halves only to keep the evaluation shallow.
RECURSIVE add_signers(_, _, _, _)
add_signers(ms, signers, lo, hi) ==
    IF lo > hi THEN [err |-> Ok, ms |-> ms]
    ELSE IF lo = hi THEN add_signer(ms, signers[lo])
    ELSE LET mid == (lo + hi) \div 2
             r == add_signers(ms, signers, lo, mid)
         IN  IF r.err # Ok THEN r ELSE add_signers(r.ms, signers, mid + 1, hi)

\* for executor in executors { executors.add_executor(*executor)?; }
RECURSIVE add_executors(_, _, _, _)
add_executors(ex, executors, lo, hi) ==
    IF lo > hi THEN [err |-> Ok, ex |-> ex]
    ELSE IF lo = hi THEN add_executor(ex, executors[lo])
    ELSE LET mid == (lo + hi) \div 2
             r == add_executors(ex, executors, lo, mid)
         IN  IF r.err # Ok THEN r ELSE add_executors(r.ex, executors, mid + 1, hi)

InitOneSig_apply(state, params) ==
    LET s1 == [state EXCEPT !.seed = params.seed, !.nonce = 0,
                            !.one_sig_id = params.one_sig_id,
                            !.bump = find_program_address_bump]
        \* set_executor_required(...)?
        required(s, q) == [err |-> q.err, state |-> [s EXCEPT !.executors = q.ex]]
        \* the executors loop, then set_executor_required
        executors(s, e) ==
            IF e.err # Ok THEN [err |-> e.err, state |-> [s EXCEPT !.executors = e.ex]]
            ELSE required(s, set_executor_required(e.ex, params.executor_required))
        \* set_threshold(...)?, then the executors
        threshold(t) ==
            IF t.err # Ok THEN [err |-> t.err, state |-> [s1 EXCEPT !.multisig = t.ms]]
            ELSE executors([s1 EXCEPT !.multisig = t.ms],
                           add_executors(s1.executors, params.executors, 1,
                                         Len(params.executors)))
        \* the signers loop, then set_threshold
        signers(a) ==
            IF a.err # Ok THEN [err |-> a.err, state |-> [s1 EXCEPT !.multisig = a.ms]]
            ELSE threshold(set_threshold(a.ms, params.threshold))
    IN  signers(add_signers(s1.multisig, params.signers, 1, Len(params.signers)))

(***************************************************************************)
(* set_config.rs: SetConfig::apply.  params is SetConfigParams as Borsh    *)
(* lays it out: the variant index, then the argument (an address, a        *)
(* threshold, the seed Hash(arg), a pubkey, or a bool as 0/1).             *)
(***************************************************************************)
AddSigner == 0
RemoveSigner == 1
SetThreshold == 2
SetSeed == 3
AddExecutor == 4
RemoveExecutor == 5
SetExecutorRequired == 6

SetConfig_apply(state, params) ==
    LET multisig(r) == [err |-> r.err, state |-> [state EXCEPT !.multisig = r.ms]]
        executors(r) == [err |-> r.err, state |-> [state EXCEPT !.executors = r.ex]]
    IN
    CASE params.variant = AddSigner ->
             multisig(add_signer(state.multisig, params.arg))
      [] params.variant = RemoveSigner ->
             multisig(remove_signer(state.multisig, params.arg))
      [] params.variant = SetThreshold ->
             multisig(set_threshold(state.multisig, params.arg))
      [] params.variant = SetSeed ->
             [err |-> Ok, state |-> [state EXCEPT !.seed = Hash(params.arg)]]
      [] params.variant = AddExecutor ->
             executors(add_executor(state.executors, params.arg))
      [] params.variant = RemoveExecutor ->
             executors(remove_executor(state.executors, params.arg))
      [] params.variant = SetExecutorRequired ->
             executors(set_executor_required(state.executors, params.arg = 1))

(***************************************************************************)
(* The instructions init_one_sig and set_config.                           *)
(***************************************************************************)
Outcome(op, err) == [op |-> op, err |-> err, replay |-> FALSE, committed |-> "n/a"]

\* init_one_sig: the `init` constraint lets it run once per account.
InitOneSig(params) ==
    /\ ~initialized
    /\ \E r \in {InitOneSig_apply(one_sig_state, params)} :
       /\ initialized' = (r.err = Ok)
       /\ one_sig_state' = commit(r.err, one_sig_state, r.state)
       /\ last' = Outcome("init_one_sig", r.err)
    /\ UNCHANGED <<merkle_root_states, signer_account, now, tracked, call, ret>>

\* set_config as it runs once the one_sig_signer PDA has signed, which only
\* invoke_signed inside execute_transaction makes happen.
SetConfig(params) ==
    /\ initialized
    /\ \E r \in {SetConfig_apply(one_sig_state, params)} :
       /\ one_sig_state' = commit(r.err, one_sig_state, r.state)
       /\ last' = Outcome("set_config", r.err)
    /\ UNCHANGED <<initialized, merkle_root_states, signer_account, now, tracked, call, ret>>

InitIdle ==
    /\ InitInstance
    /\ call = NoCall
    /\ ret = NoRet

(***************************************************************************)
(* SpecSigners: init_one_sig and the signer side of set_config, with       *)
(* rosters at and around SIGNERS_MAX_LEN and MAX_THRESHOLD.  The rosters   *)
(* of 19 to 21 signers stand for an instance grown to that size.           *)
(***************************************************************************)
RosterSeed == Hash(1)

SignerInitParams ==
    [one_sig_id : {1},
     seed : {RosterSeed},
     threshold : {0, 1, 2, MAX_THRESHOLD, MAX_THRESHOLD + 1},
     signers : {<<>>, <<1, 2>>, <<1, 1>>, <<1, 0>>, Upto(SIGNERS_MAX_LEN - 1),
                Upto(SIGNERS_MAX_LEN), Upto(SIGNERS_MAX_LEN + 1)},
     executors : {<<>>},
     executor_required : {FALSE}]

SignerConfigParams ==
    [variant : {AddSigner, RemoveSigner}, arg : {0, 1, 2, SIGNERS_MAX_LEN + 1}]
    \cup [variant : {SetThreshold},
          arg : {0, 1, 2, 3, MAX_THRESHOLD, MAX_THRESHOLD + 1, SIGNERS_MAX_LEN}]

NextSigners ==
    \/ \E params \in SignerInitParams : InitOneSig(params)
    \/ \E params \in SignerConfigParams : SetConfig(params)

SpecSigners == InitIdle /\ [][NextSigners]_vars

(***************************************************************************)
(* SpecExecutors: init_one_sig and the executor side of set_config, with   *)
(* executor lists at and around EXECUTORS_MAX_LEN.                         *)
(***************************************************************************)
ExecutorInitParams ==
    [one_sig_id : {1},
     seed : {RosterSeed},
     threshold : {1},
     signers : {<<1>>},
     executors : {<<>>, <<1>>, <<1, 1>>, <<1, 0>>, Upto(EXECUTORS_MAX_LEN - 1),
                  Upto(EXECUTORS_MAX_LEN), Upto(EXECUTORS_MAX_LEN + 1)},
     executor_required : BOOLEAN]

ExecutorConfigParams ==
    [variant : {AddExecutor, RemoveExecutor}, arg : {0, 1, 2, EXECUTORS_MAX_LEN + 1}]
    \cup [variant : {SetExecutorRequired}, arg : {0, 1}]

NextExecutors ==
    \/ \E params \in ExecutorInitParams : InitOneSig(params)
    \/ \E params \in ExecutorConfigParams : SetConfig(params)

SpecExecutors == InitIdle /\ [][NextExecutors]_vars

(***************************************************************************)
(* Claims about the roster, checked under SpecSigners and SpecExecutors.   *)
(***************************************************************************)
\* C9: after init_one_sig and after every sequence of add signer, remove
\* signer and set threshold operations, succeeding or failing, the roster has
\* 1 <= threshold <= 13, threshold <= number of signers <= 20, no signer
\* twice, and not the zero address.
C9_RosterInvariant ==
    initialized =>
        /\ 1 <= one_sig_state.multisig.threshold
        /\ one_sig_state.multisig.threshold <= 13
        /\ one_sig_state.multisig.threshold <= Len(one_sig_state.multisig.signers)
        /\ Len(one_sig_state.multisig.signers) <= 20
        /\ \A i, j \in DOMAIN one_sig_state.multisig.signers :
               one_sig_state.multisig.signers[i] = one_sig_state.multisig.signers[j] => i = j
        /\ \A i \in DOMAIN one_sig_state.multisig.signers :
               one_sig_state.multisig.signers[i] # 0

\* A full roster of 20 with the highest threshold, after an add was refused.
C9_Witness_FullRoster ==
    /\ initialized
    /\ Len(one_sig_state.multisig.signers) = 20
    /\ one_sig_state.multisig.threshold = 13
    /\ last.op = "set_config"
    /\ last.err = "InvalidSignersLen"

\* C10: after init_one_sig and after every sequence of add_executor,
\* remove_executor and set_executor_required operations, executor_required
\* implies a non-empty executor set, the set holds at most 277 entries, and
\* no executor appears twice.
C10_ExecutorInvariant ==
    initialized =>
        /\ one_sig_state.executors.executor_required =>
               Len(one_sig_state.executors.executors) > 0
        /\ Len(one_sig_state.executors.executors) <= 277
        /\ \A i, j \in DOMAIN one_sig_state.executors.executors :
               one_sig_state.executors.executors[i] = one_sig_state.executors.executors[j]
                   => i = j

\* The last executor of a required set was not removed.
C10_Witness_LastExecutorKept ==
    /\ initialized
    /\ one_sig_state.executors.executor_required
    /\ Len(one_sig_state.executors.executors) = 1
    /\ last.op = "set_config"
    /\ last.err = "EmptyExecutorSet"

(***************************************************************************)
(* merkle.rs.  Digests are compared as byte strings (`computed_hash < *p`  *)
(* on [u8; 32]); HashLess is that order on the digest terms: any total     *)
(* order does, since nothing but the order of the two children of a node   *)
(* depends on it.                                                          *)
(***************************************************************************)
RECURSIVE BytesLess(_, _)
BytesLess(s, t) ==
    IF t = <<>> THEN FALSE
    ELSE IF s = <<>> THEN TRUE
    ELSE IF s[1] # t[1] THEN s[1] < t[1]
    ELSE BytesLess(Tail(s), Tail(t))

RECURSIVE HashLess(_, _)
RECURSIVE HashSeqLess(_, _)
HashSeqLess(s, t) ==
    IF t = <<>> THEN FALSE
    ELSE IF s = <<>> THEN TRUE
    ELSE IF s[1] # t[1] THEN HashLess(s[1], t[1])
    ELSE HashSeqLess(Tail(s), Tail(t))

HashLess(a, b) ==
    IF a.b1 # b.b1 THEN BytesLess(a.b1, b.b1)
    ELSE IF a.h # b.h THEN HashSeqLess(a.h, b.h)
    ELSE BytesLess(a.b2, b.b2)

\* keccak::hashv(&[a, b]).0
hashv2(a, b) == Keccak(<<>>, <<a, b>>, <<>>)

\* A fold that always puts the running digest first (for comparison).
RECURSIVE computed_hash_unsorted(_, _, _)
computed_hash_unsorted(acc, proof, i) ==
    IF i > Len(proof) THEN acc
    ELSE computed_hash_unsorted(hashv2(acc, proof[i]), proof, i + 1)

\* The fold of verify_merkle_proof over proof[i..]: the smaller of the two
\* digests goes first.
RECURSIVE computed_hash(_, _, _)
computed_hash(acc, proof, i) ==
    IF i > Len(proof) THEN acc
    ELSE computed_hash(IF HashLess(acc, proof[i]) THEN hashv2(acc, proof[i])
                       ELSE hashv2(proof[i], acc),
                       proof, i + 1)

\* The proof not looked at (for comparison).
verify_merkle_proof_unchecked(merkle_root, proof, leaf) == Ok

verify_merkle_proof(merkle_root, proof, leaf) ==
    IF computed_hash(leaf, proof, 1) = merkle_root THEN Ok ELSE "InvalidProof"

\* Borsh of a bool, of one AccountMeta (32-byte pubkey, is_signer,
\* is_writable) and of a Vec<AccountMeta> behind its u32 length.
bool_byte(b) == IF b THEN 1 ELSE 0

account_metas_bytes(accounts) ==
    [k \in 1..(3 * Len(accounts)) |->
        LET a == accounts[((k - 1) \div 3) + 1] IN
        CASE (k - 1) % 3 = 0 -> a.pubkey
          [] (k - 1) % 3 = 1 -> bool_byte(a.is_signer)
          [] OTHER -> bool_byte(a.is_writable)]

\* encode_instruction: instruction.serialize, the Borsh of program_id,
\* accounts, data and value (a u64, little-endian).  A pubkey is one cell
\* of the byte string.
encode_instruction(ix) ==
    <<ix.program_id>>
        \o to_le_bytes(Len(ix.accounts), 4) \o account_metas_bytes(ix.accounts)
        \o to_le_bytes(Len(ix.data), 4) \o ix.data
        \o to_le_bytes(ix.value, 8)

\* The leaf preimage with the nonce left out (for comparison).
leaf_preimage_without_nonce(one_sig_state_key, one_sig_id, nonce, ix) ==
    <<MERKLE_LEAF_ENCODING_VERSION>> \o to_be_bytes(one_sig_id, 8)
        \o <<one_sig_state_key>> \o encode_instruction(ix)

\* The leaf preimage with the instance id and key left out (for comparison).
leaf_preimage_without_instance(one_sig_state_key, one_sig_id, nonce, ix) ==
    <<MERKLE_LEAF_ENCODING_VERSION>> \o to_be_bytes(nonce, 8) \o encode_instruction(ix)

\* The bytes encode_leaf hashes: version, id (8 BE), state key, nonce (8 BE),
\* encoded instruction.
leaf_preimage(one_sig_state_key, one_sig_id, nonce, ix) ==
    <<MERKLE_LEAF_ENCODING_VERSION>> \o to_be_bytes(one_sig_id, 8)
        \o <<one_sig_state_key>> \o to_be_bytes(nonce, 8) \o encode_instruction(ix)

\* encode_leaf: keccak(keccak(preimage)).
encode_leaf(one_sig_state_key, one_sig_id, nonce, ix) ==
    Keccak(<<>>,
           <<Keccak(leaf_preimage(one_sig_state_key, one_sig_id, nonce, ix), <<>>, <<>>)>>,
           <<>>)

(***************************************************************************)
(* execute_transaction.rs.  The accounts of one instance: the program, the *)
(* OneSigState account, its one_sig_signer PDA, and (outside the instance) *)
(* another program and another OneSigState account.  An Option is a        *)
(* sequence of length 0 or 1.                                              *)
(***************************************************************************)
ID == 500

OneSigStateKey == 501

OneSigSignerKey == 502

OtherProgram == 600

OtherStateKey == 601

\* sha256("global:execute_transaction")[..8] and sha256("global:set_config")[..8]
ExecuteTransaction_DISCRIMINATOR == <<231, 173, 49, 91, 235, 24, 68, 19>>

SetConfig_DISCRIMINATOR == <<108, 158, 154, 175, 212, 98, 52, 66>>

MERKLE_ROOT_SEED == "MerkleRoot"

\* The address derived from seeds = [MERKLE_ROOT_SEED, one_sig_state.key(),
\* merkle_root]: the seeds themselves, so that different seeds give
\* different addresses.
MerkleRootStateKey(one_sig_state_key, merkle_root) ==
    <<MERKLE_ROOT_SEED, one_sig_state_key, merkle_root>>

\* The constraints without the one on the seed (for comparison).
ExecuteTransaction_constraints_no_seed(state, merkle_root_state, current_timestamp) ==
    IF merkle_root_state = <<>> THEN Ok
    ELSE IF merkle_root_state[1].key
              # MerkleRootStateKey(OneSigStateKey, merkle_root_state[1].merkle_root)
    THEN "ConstraintSeeds"
    ELSE IF ~(merkle_root_state[1].expiry >= current_timestamp) THEN "ExpiredMerkleRoot"
    ELSE Ok

\* The constraints without the one on the address (for comparison).
ExecuteTransaction_constraints_any_key(state, merkle_root_state, current_timestamp) ==
    IF merkle_root_state = <<>> THEN Ok
    ELSE IF ~(merkle_root_state[1].expiry >= current_timestamp) THEN "ExpiredMerkleRoot"
    ELSE IF ~(merkle_root_state[1].seed = state.seed) THEN "SeedMismatch"
    ELSE Ok

\* The record refused at its expiry (for comparison).
ExecuteTransaction_constraints_strict(state, merkle_root_state, current_timestamp) ==
    IF merkle_root_state = <<>> THEN Ok
    ELSE IF merkle_root_state[1].key
              # MerkleRootStateKey(OneSigStateKey, merkle_root_state[1].merkle_root)
    THEN "ConstraintSeeds"
    ELSE IF ~(merkle_root_state[1].expiry > current_timestamp) THEN "ExpiredMerkleRoot"
    ELSE IF ~(merkle_root_state[1].seed = state.seed) THEN "SeedMismatch"
    ELSE Ok

\* The account constraints on merkle_root_state, evaluated when the account
\* is passed, before apply runs: the address derived from the seeds, then
\* the expiry, then the seed.
ExecuteTransaction_constraints(state, merkle_root_state, current_timestamp) ==
    IF merkle_root_state = <<>> THEN Ok
    ELSE IF merkle_root_state[1].key
              # MerkleRootStateKey(OneSigStateKey, merkle_root_state[1].merkle_root)
    THEN "ConstraintSeeds"
    ELSE IF ~(merkle_root_state[1].expiry >= current_timestamp) THEN "ExpiredMerkleRoot"
    ELSE IF ~(merkle_root_state[1].seed = state.seed) THEN "SeedMismatch"
    ELSE Ok

\* The record preferred to the signed root when both are there (for
\* comparison).
verify_merkle_root_record_first(state, merkle_root_state, merkle_root_verification, current_timestamp) ==
    IF merkle_root_state # <<>>
    THEN [err |-> Ok, root |-> merkle_root_state[1].merkle_root]
    ELSE IF merkle_root_verification = <<>>
         THEN [err |-> "MissingMerkleRootState", root |-> Hash(0)]
         ELSE [err |-> MerkleValidator_verify_merkle_root(
                           state, merkle_root_verification[1].merkle_root,
                           merkle_root_verification[1].expiry,
                           merkle_root_verification[1].signatures, current_timestamp),
               root |-> merkle_root_verification[1].merkle_root]

\* fn verify_merkle_root: [err, root]
verify_merkle_root(state, merkle_root_state, merkle_root_verification, current_timestamp) ==
    IF merkle_root_verification # <<>>
    THEN LET v == merkle_root_verification[1] IN
         [err |-> MerkleValidator_verify_merkle_root(state, v.merkle_root, v.expiry,
                                                     v.signatures, current_timestamp),
          root |-> v.merkle_root]
    ELSE IF merkle_root_state = <<>>
         THEN [err |-> "MissingMerkleRootState", root |-> Hash(0)]
         ELSE [err |-> Ok, root |-> merkle_root_state[1].merkle_root]

\* The signer flag of the supplied account kept (for comparison).
build_instruction_caller_flags(one_sig_signer, transaction, remaining_accounts) ==
    [program_id |-> remaining_accounts[1].pubkey,
     accounts |-> [i \in 1..(Len(remaining_accounts) - 1) |->
                     [pubkey |-> remaining_accounts[i + 1].pubkey,
                      is_signer |-> \/ remaining_accounts[i + 1].pubkey = one_sig_signer
                                    \/ remaining_accounts[i + 1].is_signer,
                      is_writable |-> remaining_accounts[i + 1].is_writable]],
     data |-> transaction.ix_data,
     value |-> transaction.value]

\* fn build_instruction, for remaining_accounts that are not empty.
build_instruction(one_sig_signer, transaction, remaining_accounts) ==
    [program_id |-> remaining_accounts[1].pubkey,
     accounts |-> [i \in 1..(Len(remaining_accounts) - 1) |->
                     [pubkey |-> remaining_accounts[i + 1].pubkey,
                      is_signer |-> remaining_accounts[i + 1].pubkey = one_sig_signer,
                      is_writable |-> remaining_accounts[i + 1].is_writable]],
     data |-> transaction.ix_data,
     value |-> transaction.value]

\* #[event] struct ConfigSet and struct TransactionExecuted, as emit_cpi!
\* logs them.
ConfigSet(one_sig_account, params) ==
    [event |-> "ConfigSet", one_sig_account |-> one_sig_account, params |-> params]

TransactionExecuted(one_sig_account, merkle_root, nonce) ==
    [event |-> "TransactionExecuted", one_sig_account |-> one_sig_account,
     merkle_root |-> merkle_root, nonce |-> nonce]

\* The events a result carries: those of a successful instruction; what a
\* failed one logged is dropped with its transaction.
Emitted(r) == IF r.err = Ok /\ "events" \in DOMAIN r THEN r.events ELSE <<>>


\* invoke_signed(&solana_ix, ...): what the invoked program does to the
\* OneSigState account and to the one_sig_signer account.  The runtime lets a
\* program be re-entered only by itself, so the OneSigState account changes
\* only when the target is this program: set_config runs when its accounts
\* (the signing PDA, the writable state) and its Borsh parameters are there.
\* Another program does what fx says, and can touch the one_sig_signer
\* account only if the instruction lists it writable.
invoke_signed(state, one_sig_signer, ix, fx) ==
    IF ix.program_id = ID /\ Len(ix.data) >= 8 /\ SubSeq(ix.data, 1, 8) = SetConfig_DISCRIMINATOR
    THEN IF /\ Len(ix.data) = 10
            /\ Len(ix.accounts) >= 2
            /\ ix.accounts[1].pubkey = OneSigSignerKey
            /\ ix.accounts[1].is_signer
            /\ ix.accounts[2].pubkey = OneSigStateKey
            /\ ix.accounts[2].is_writable
            /\ ix.data[9] \in AddSigner..SetExecutorRequired
         THEN LET params == [variant |-> ix.data[9], arg |-> ix.data[10]]
                  set_config(r) ==
                      [err |-> r.err, state |-> r.state, one_sig_signer |-> one_sig_signer,
                       events |-> <<ConfigSet(OneSigStateKey, params)>>]
              IN  set_config(SetConfig_apply(state, params))
         ELSE [err |-> "CpiError", state |-> state, one_sig_signer |-> one_sig_signer]
    ELSE IF ~fx.ok
         THEN [err |-> "CpiError", state |-> state, one_sig_signer |-> one_sig_signer]
         ELSE IF \E i \in DOMAIN ix.accounts :
                     ix.accounts[i].pubkey = OneSigSignerKey /\ ix.accounts[i].is_writable
              THEN [err |-> Ok, state |-> state,
                    one_sig_signer |-> [lamports |-> fx.lamports, owner |-> fx.owner,
                                        data_is_empty |-> fx.data_is_empty]]
              ELSE [err |-> Ok, state |-> state, one_sig_signer |-> one_sig_signer]

\* A u64 is written as the integer with the same 64 bits in two's
\* complement: n >= 0 is n, n < 0 is 2^64 + n.  The values of the model are
\* near 0 or near 2^64, where the following are exact.
\* a <= b on u64
u64_le(a, b) == IF (a >= 0) = (b >= 0) THEN a <= b ELSE a >= 0

\* a + b on u64: [sum, overflow], sum being the wrapped sum.
u64_add(a, b) == [sum |-> a + b, overflow |-> ~u64_le(a, a + b)]

\* require!(balance_before <= balance_after + value, ...): when the sum
\* overflows, a program built with overflow-checks aborts and one built
\* without compares with the wrapped sum.
balance_check(balance_before, balance_after, value, overflow_checks) ==
    LET checked(s) ==
            IF s.overflow /\ overflow_checks THEN "panic"
            ELSE IF ~u64_le(balance_before, s.sum) THEN "ExcessiveBalanceDeduction"
            ELSE Ok
    IN  checked(u64_add(balance_after, value))

\* The owner is not looked at (for comparison).
account_check_data_only(one_sig_signer) ==
    IF ~one_sig_signer.data_is_empty THEN "NonEmptySignerData" ELSE Ok

\* The two require! on one_sig_signer after the balance check.
account_check(one_sig_signer) ==
    IF ~(one_sig_signer.owner = SYSTEM_PROGRAM_ID) THEN "InvalidSignerOwner"
    ELSE IF ~one_sig_signer.data_is_empty THEN "NonEmptySignerData"
    ELSE Ok

\* impl From<OneSigAccountMeta> for AccountMeta
AccountMeta_from(account_meta) ==
    [pubkey |-> account_meta.pubkey,
     is_signer |-> account_meta.is_signer,
     is_writable |-> account_meta.is_writable]

\* impl From<OneSigInstruction> for (Instruction, u64): [solana_ix, value]
Instruction_from(instruction) ==
    [solana_ix |-> [program_id |-> instruction.program_id,
                    accounts |-> [i \in DOMAIN instruction.accounts |->
                                     AccountMeta_from(instruction.accounts[i])],
                    data |-> instruction.data],
     value |-> instruction.value]

\* The instruction invoked without a look at its discriminator (for
\* comparison).
execute_instruction_reentrant(state, one_sig_signer, instruction, fx, overflow_checks) ==
    LET balance_before == one_sig_signer.lamports
        balanced(r) == balance_check(balance_before, r.one_sig_signer.lamports,
                                     instruction.value, overflow_checks)
        invoked(r) ==
            IF r.err # Ok THEN r
            ELSE IF balanced(r) # Ok
                 THEN [r EXCEPT !.err = balanced(r)]
            ELSE [r EXCEPT !.err = account_check(r.one_sig_signer)]
    IN  invoked(invoke_signed(state, one_sig_signer,
                              Instruction_from(instruction).solana_ix, fx))

\* fn execute_instruction: [err, state, one_sig_signer], the two accounts as
\* the invoked program left them.
execute_instruction(state, one_sig_signer, instruction, fx, overflow_checks) ==
    LET balance_before == one_sig_signer.lamports
        solana_ix == Instruction_from(instruction).solana_ix
        value == Instruction_from(instruction).value
        \* the balance check after invoke_signed(...)?
        balanced(r) == balance_check(balance_before, r.one_sig_signer.lamports, value,
                                     overflow_checks)
        \* after invoke_signed(...)?: the three checks on one_sig_signer
        invoked(r) ==
            IF r.err # Ok THEN r
            ELSE IF balanced(r) # Ok
                 THEN [r EXCEPT !.err = balanced(r)]
            ELSE [r EXCEPT !.err = account_check(r.one_sig_signer)]
    IN
    IF solana_ix.program_id = ID /\ Len(solana_ix.data) < 8
    THEN [err |-> "panic", state |-> state, one_sig_signer |-> one_sig_signer]
    ELSE IF /\ solana_ix.program_id = ID
            /\ ~(ExecuteTransaction_DISCRIMINATOR # SubSeq(solana_ix.data, 1, 8))
    THEN [err |-> "Reentrancy", state |-> state, one_sig_signer |-> one_sig_signer]
    ELSE invoked(invoke_signed(state, one_sig_signer, solana_ix, fx))

\* ctx.accounts.one_sig_state.reload(): the in-memory copy becomes what the
\* account holds.
reload_skipped(in_memory, account) == in_memory

reload(in_memory, account) == account

\* The nonce left as it was read (for comparison).
next_nonce_same(nonce) == nonce

\* The nonce bumped by two (for comparison).
next_nonce_twice(nonce) == nonce + 2

\* nonce + 1
next_nonce(nonce) == nonce + 1

\* The event with the nonce as stored after the execution (for comparison).
emit_TransactionExecuted_stored(merkle_root, nonce) ==
    <<TransactionExecuted(OneSigStateKey, merkle_root, next_nonce(nonce))>>

\* emit_cpi!(TransactionExecuted { one_sig_account, merkle_root, nonce })
emit_TransactionExecuted(merkle_root, nonce) ==
    <<TransactionExecuted(OneSigStateKey, merkle_root, nonce)>>

\* The executor looked at after the root (for comparison).
ExecuteTransaction_authorize_root_first(state, p, current_timestamp) ==
    LET gate(v) ==
            IF v.err # Ok THEN v
            ELSE IF /\ state.executors.executor_required
                    /\ ~Contains(state.executors.executors, p.executor)
            THEN [err |-> "ExecutorRequired", root |-> Hash(0)]
            ELSE v
    IN  gate(verify_merkle_root(state, p.merkle_root_state, p.merkle_root_verification,
                                current_timestamp))

\* ExecuteTransaction::apply up to verify_merkle_root(...)?: [err, root]
ExecuteTransaction_authorize(state, p, current_timestamp) ==
    IF /\ state.executors.executor_required
       /\ ~Contains(state.executors.executors, p.executor)
    THEN [err |-> "ExecutorRequired", root |-> Hash(0)]
    ELSE verify_merkle_root(state, p.merkle_root_state, p.merkle_root_verification,
                            current_timestamp)

\* ExecuteTransaction::apply: [err, state, one_sig_signer], the accounts as
\* the handler leaves them.  p holds the accounts (executor, merkle_root_state,
\* remaining_accounts) and the parameters (transaction,
\* merkle_root_verification); fx is what a foreign target program does.
\* remaining_accounts[0] of an empty slice aborts the program.
ExecuteTransaction_apply(state, one_sig_signer, p, current_timestamp, fx, overflow_checks) ==
    LET nonce == state.nonce
        \* after execute_instruction(...)?: reload, then nonce + 1, then the
        \* event
        executed(merkle_root, x) ==
            IF x.err # Ok THEN x
            ELSE [err |-> Ok,
                  state |-> [reload(state, x.state) EXCEPT !.nonce = next_nonce(nonce)],
                  one_sig_signer |-> x.one_sig_signer,
                  events |-> Emitted(x) \o emit_TransactionExecuted(merkle_root, nonce)]
        \* from encode_leaf on
        proven(merkle_root, instruction) ==
            IF verify_merkle_proof(merkle_root, p.transaction.proof,
                                   encode_leaf(OneSigStateKey, state.one_sig_id, nonce,
                                               instruction)) # Ok
            THEN [err |-> "InvalidProof", state |-> state, one_sig_signer |-> one_sig_signer]
            ELSE executed(merkle_root,
                          execute_instruction(state, one_sig_signer, instruction, fx,
                                              overflow_checks))
        \* from build_instruction on
        authorized(a) ==
            IF a.err # Ok
            THEN [err |-> a.err, state |-> state, one_sig_signer |-> one_sig_signer]
            ELSE IF p.remaining_accounts = <<>>
            THEN [err |-> "panic", state |-> state, one_sig_signer |-> one_sig_signer]
            ELSE proven(a.root, build_instruction(OneSigSignerKey, p.transaction,
                                                  p.remaining_accounts))
    IN  authorized(ExecuteTransaction_authorize(state, p, current_timestamp))

\* The instruction as the runtime runs it: account constraints, then apply.
ExecuteTransaction_run(state, one_sig_signer, p, current_timestamp, fx, overflow_checks) ==
    LET c == ExecuteTransaction_constraints(state, p.merkle_root_state, current_timestamp) IN
    IF c # Ok THEN [err |-> c, state |-> state, one_sig_signer |-> one_sig_signer]
    ELSE ExecuteTransaction_apply(state, one_sig_signer, p, current_timestamp, fx,
                                  overflow_checks)

(***************************************************************************)
(* What a root commits to, read off its preimage: the leaf a proof climbs  *)
(* from, and the fields of that leaf.                                      *)
(***************************************************************************)
\* <<leaf>> if root is the Merkle root (sorted pairs) of a tree in which
\* proof[1..i] is the path of leaf, else <<>>.
RECURSIVE ProvenLeaf(_, _, _)
ProvenLeaf(root, proof, i) ==
    IF i = 0 THEN <<root>>
    ELSE IF root.b1 = <<>> /\ root.b2 = <<>> /\ Len(root.h) = 2
    THEN LET child == IF root.h[1] = proof[i] THEN root.h[2] ELSE root.h[1] IN
         IF root = (IF HashLess(child, proof[i]) THEN hashv2(child, proof[i])
                    ELSE hashv2(proof[i], child))
         THEN ProvenLeaf(child, proof, i - 1)
         ELSE <<>>
    ELSE <<>>

\* The number 8 big-endian bytes stand for, or -1 if it is beyond 31 bits.
from_be_bytes(b) ==
    IF b[1] = 0 /\ b[2] = 0 /\ b[3] = 0 /\ b[4] = 0 /\ b[5] < 128
    THEN ((b[5] * 256 + b[6]) * 256 + b[7]) * 256 + b[8]
    ELSE -1

IsLeafHash(l) ==
    /\ l.b1 = <<>> /\ l.b2 = <<>> /\ Len(l.h) = 1
    /\ l.h[1].h = <<>> /\ l.h[1].b2 = <<>> /\ Len(l.h[1].b1) >= 18

LeafFields(l) ==
    LET b == l.h[1].b1 IN
    [version |-> b[1],
     one_sig_id |-> from_be_bytes(SubSeq(b, 2, 9)),
     key |-> b[10],
     nonce |-> from_be_bytes(SubSeq(b, 11, 18)),
     action |-> SubSeq(b, 19, Len(b))]

\* How the leaf that (root, proof) commits to compares with the instance
\* (key, id), the nonce and the instruction at hand: "same", the first field
\* that differs, or "none" if the root commits to no leaf along that proof.
Committed(root, proof, key, one_sig_id, nonce, instruction) ==
    LET fields(c) ==
            IF c.version # 1 THEN "version"
            ELSE IF c.one_sig_id # one_sig_id THEN "id"
            ELSE IF c.key # key THEN "key"
            ELSE IF c.nonce # nonce THEN "nonce"
            ELSE IF c.action # encode_instruction(instruction) THEN "action"
            ELSE "same"
        leaf(l) ==
            IF l = <<>> THEN "none"
            ELSE IF ~IsLeafHash(l[1]) THEN "none"
            ELSE fields(LeafFields(l[1]))
    IN  leaf(ProvenLeaf(root, proof, Len(proof)))

(***************************************************************************)
(* The instructions execute_transaction, verify_merkle_root and            *)
(* close_merkle_root, and the clock.  A failed instruction leaves every    *)
(* account as it was (commit).  last records the latest step and its       *)
(* outcome, with two facts about an execute_transaction request: whether   *)
(* it repeats the remembered successful one, and what its root commits to. *)
(* tracked remembers one successful request (root, proof, instruction).    *)
(***************************************************************************)
MaxNonce == 2

MaxTime == 1

MaxLamports == 1

MaxRecords == 1

\* The root a request is checked against, as an Option.
RequestRoot(p) ==
    IF p.merkle_root_verification # <<>> THEN <<p.merkle_root_verification[1].merkle_root>>
    ELSE IF p.merkle_root_state # <<>> THEN <<p.merkle_root_state[1].merkle_root>>
    ELSE <<>>

\* The request as the replay record keeps it: <<[merkle_root, proof,
\* instruction]>>, or <<>> when the request names no root or no target.
Request(p) ==
    IF RequestRoot(p) # <<>> /\ p.remaining_accounts # <<>>
    THEN <<[merkle_root |-> RequestRoot(p)[1],
            proof |-> p.transaction.proof,
            instruction |-> build_instruction(OneSigSignerKey, p.transaction,
                                              p.remaining_accounts)]>>
    ELSE <<>>

\* What the root of a request commits to, for the instance and nonce of state.
CommittedBy(request, state) ==
    IF request = <<>> THEN "n/a"
    ELSE Committed(request[1].merkle_root, request[1].proof, OneSigStateKey,
                   state.one_sig_id, state.nonce, request[1].instruction)

\* The builds of the program to look at: with overflow-checks and without.
\* They differ only when balance_after + value overflows, which takes a value
\* near 2^64.
Builds(value) == IF value < 0 THEN BOOLEAN ELSE {TRUE}

\* The accounts after execute_transaction has run with result r.
ExecuteTransaction_commit(p, r, track) ==
    \E request \in {Request(p)} :
       /\ one_sig_state' = commit(r.err, one_sig_state, r.state)
       /\ signer_account' = commit(r.err, signer_account, r.one_sig_signer)
       /\ last' = [op |-> "execute_transaction",
                   err |-> r.err,
                   replay |-> request # <<>> /\ request = tracked,
                   committed |-> CommittedBy(request, one_sig_state)]
       /\ tracked' = IF track /\ r.err = Ok /\ tracked = <<>> THEN request ELSE tracked

\* execute_transaction on the accounts of the instance, in either build.
ExecuteTransaction_instruction(p, fx, track) ==
    /\ initialized
    /\ \E r \in {ExecuteTransaction_run(one_sig_state, signer_account, p, now, fx,
                                        overflow_checks) :
                     overflow_checks \in Builds(p.transaction.value)} :
          ExecuteTransaction_commit(p, r, track)
    /\ UNCHANGED <<initialized, merkle_root_states, now>>

ExecuteTransaction(p, fx, track) ==
    /\ one_sig_state.nonce < MaxNonce
    /\ ExecuteTransaction_instruction(p, fx, track)
    /\ UNCHANGED <<call, ret>>

\* The record written whatever the signatures are (for comparison).
VerifyMerkleRoot_apply_unverified(state, payer, params, current_timestamp) ==
    [err |-> Ok,
     merkle_root_state |-> [key |-> MerkleRootStateKey(OneSigStateKey, params.merkle_root),
                            merkle_root |-> params.merkle_root,
                            seed |-> state.seed,
                            expiry |-> params.expiry,
                            rent_payer |-> payer,
                            bump |-> find_program_address_bump]]

\* VerifyMerkleRoot::apply on the account `init` has made at the address
\* derived from the seeds: [err, merkle_root_state]
VerifyMerkleRoot_apply(state, payer, params, current_timestamp) ==
    [err |-> MerkleValidator_verify_merkle_root(state, params.merkle_root, params.expiry,
                                                params.signatures, current_timestamp),
     merkle_root_state |-> [key |-> MerkleRootStateKey(OneSigStateKey, params.merkle_root),
                            merkle_root |-> params.merkle_root,
                            seed |-> state.seed,
                            expiry |-> params.expiry,
                            rent_payer |-> payer,
                            bump |-> find_program_address_bump]]

\* verify_merkle_root: `init` refuses a root whose record exists, then
\* VerifyMerkleRoot::apply.
VerifyMerkleRoot_instruction(payer, params) ==
    /\ initialized
    /\ \/ Cardinality(merkle_root_states) < MaxRecords
       \/ \E m \in merkle_root_states : m.merkle_root = params.merkle_root
    /\ \E r \in {IF \E m \in merkle_root_states : m.merkle_root = params.merkle_root
                 THEN [err |-> "AccountAlreadyInUse"]
                 ELSE VerifyMerkleRoot_apply(one_sig_state, payer, params, now)} :
       /\ merkle_root_states' =
              IF r.err = Ok THEN merkle_root_states \cup {r.merkle_root_state}
              ELSE merkle_root_states
       /\ last' = Outcome("verify_merkle_root", r.err)
    /\ UNCHANGED <<initialized, one_sig_state, signer_account, now, tracked>>

VerifyMerkleRoot(payer, params) ==
    /\ VerifyMerkleRoot_instruction(payer, params)
    /\ UNCHANGED <<call, ret>>

\* The record may be closed at its expiry (for comparison).
CloseMerkleRoot_constraints_at_expiry(signer, merkle_root_state, current_timestamp) ==
    IF signer # merkle_root_state.rent_payer THEN "Unauthorized"
    ELSE IF ~(merkle_root_state.expiry <= current_timestamp) THEN "MerkleRootNotExpired"
    ELSE Ok

\* The account constraints of CloseMerkleRoot: on signer, then on
\* merkle_root_state.
CloseMerkleRoot_constraints(signer, merkle_root_state, current_timestamp) ==
    IF signer # merkle_root_state.rent_payer THEN "Unauthorized"
    ELSE IF ~(merkle_root_state.expiry < current_timestamp) THEN "MerkleRootNotExpired"
    ELSE Ok

\* close_merkle_root: the account constraints, then the close.
CloseMerkleRoot_instruction(signer, merkle_root_state) ==
    /\ merkle_root_state \in merkle_root_states
    /\ \E err \in {CloseMerkleRoot_constraints(signer, merkle_root_state, now)} :
       /\ merkle_root_states' =
              commit(err, merkle_root_states, merkle_root_states \ {merkle_root_state})
       /\ last' = Outcome("close_merkle_root", err)
    /\ UNCHANGED <<initialized, one_sig_state, signer_account, now, tracked>>

CloseMerkleRoot(signer, merkle_root_state) ==
    /\ CloseMerkleRoot_instruction(signer, merkle_root_state)
    /\ UNCHANGED <<call, ret>>

\* Clock::get()?.unix_timestamp moves on.
Tick ==
    /\ now < MaxTime
    /\ now' = now + 1
    /\ last' = Outcome("tick", Ok)
    /\ UNCHANGED <<initialized, one_sig_state, merkle_root_states, signer_account, tracked,
                   call, ret>>

(***************************************************************************)
(* The requests made of an instance: what the signers sign off-chain and   *)
(* what callers submit.                                                    *)
(***************************************************************************)
AccountInfo(pubkey, is_writable) == [pubkey |-> pubkey, is_writable |-> is_writable]

\* A call of set_config on this program, signed by the PDA.
SetConfigAction(variant, arg) ==
    [remaining_accounts |-> <<AccountInfo(ID, FALSE), AccountInfo(OneSigSignerKey, FALSE),
                              AccountInfo(OneSigStateKey, TRUE)>>,
     ix_data |-> SetConfig_DISCRIMINATOR \o <<variant, arg>>,
     value |-> 0]

\* A call of another program that is handed the PDA, with a declared value.
CallAction(value, is_writable) ==
    [remaining_accounts |-> <<AccountInfo(OtherProgram, FALSE),
                              AccountInfo(OneSigSignerKey, is_writable)>>,
     ix_data |-> <<7>>,
     value |-> value]

\* A call of execute_transaction on this program.
ReenterAction ==
    [remaining_accounts |-> <<AccountInfo(ID, FALSE), AccountInfo(OneSigSignerKey, FALSE),
                              AccountInfo(OneSigStateKey, TRUE)>>,
     ix_data |-> ExecuteTransaction_DISCRIMINATOR \o <<0>>,
     value |-> 0]

NoEffect == [ok |-> TRUE, lamports |-> 0, owner |-> SYSTEM_PROGRAM_ID, data_is_empty |-> TRUE]

\* What another program may do: fail, or leave the PDA with any balance, or
\* with another owner, or with data.
Effects ==
    {[NoEffect EXCEPT !.ok = FALSE],
     [NoEffect EXCEPT !.owner = OtherProgram],
     [NoEffect EXCEPT !.data_is_empty = FALSE]}
    \cup {[NoEffect EXCEPT !.lamports = l] : l \in 0..MaxLamports}

EffectsOf(action) ==
    IF action.remaining_accounts # <<>> /\ action.remaining_accounts[1].pubkey = OtherProgram
    THEN Effects ELSE {NoEffect}

\* The leaf the signers committed to for [key, one_sig_id, nonce, action].
CommittedLeaf(c) ==
    encode_leaf(c.key, c.one_sig_id, c.nonce,
                build_instruction(OneSigSignerKey, c.action, c.action.remaining_accounts))

\* The commitments a request for `action` may come with: the one for this
\* instance, nonce and action, and ones for another id, another account,
\* another nonce, another action.
Commitments(state, action, other_action) ==
    LET same == [key |-> OneSigStateKey, one_sig_id |-> state.one_sig_id,
                 nonce |-> state.nonce, action |-> action]
    IN  {same,
         [same EXCEPT !.one_sig_id = state.one_sig_id + 1],
         [same EXCEPT !.key = OtherStateKey],
         [same EXCEPT !.action = other_action]}
        \cup {[same EXCEPT !.nonce = n] : n \in (0..MaxNonce) \ {state.nonce}}

\* The batches holding the leaf of c: alone, or next to the leaf of the
\* following or of the preceding nonce.  [root, proof]
Batches(c) ==
    LET leaf == CommittedLeaf(c)
        near == {CommittedLeaf([c EXCEPT !.nonce = n]) :
                     n \in {c.nonce - 1, c.nonce + 1} \cap Nat}
    IN  {[root |-> leaf, proof |-> <<>>]}
        \cup {[root |-> computed_hash(leaf, <<l>>, 1), proof |-> <<l>>] : l \in near}

\* The commitment to `action` for this instance at its nonce, and the batch
\* of that leaf alone.
Same(state, action) ==
    [key |-> OneSigStateKey, one_sig_id |-> state.one_sig_id, nonce |-> state.nonce,
     action |-> action]

Alone(c) == [root |-> CommittedLeaf(c), proof |-> <<>>]

Seeds == {Hash(1), Hash(2)}

\* The first n signers of the roster sign (seed, root, expiry).
Signatures(state, seed, merkle_root, expiry, n) ==
    LET digest == sign_digest(seed, merkle_root, expiry) IN
    [chunks |-> [i \in 1..n |-> RawChunk(state.multisig.signers[i] \div 2, digest)],
     rem |-> 0]

VerifyMerkleRootParams(state, seed, merkle_root, expiry, n) ==
    [merkle_root |-> merkle_root, expiry |-> expiry,
     signatures |-> Signatures(state, seed, merkle_root, expiry, n)]

\* Signed roots: by the threshold under the current seed, unexpired and
\* expired; by one signer too few; under another seed.
SignedRoots(state, merkle_root, current_timestamp) ==
    LET t == state.multisig.threshold IN
    {VerifyMerkleRootParams(state, state.seed, merkle_root, current_timestamp, t),
     VerifyMerkleRootParams(state, state.seed, merkle_root, current_timestamp - 1, t),
     VerifyMerkleRootParams(state, state.seed, merkle_root, current_timestamp, t - 1)}
    \cup {VerifyMerkleRootParams(state, seed, merkle_root, current_timestamp, t) :
              seed \in Seeds}

\* The ways to present a root signed in the request, with no stored record.
SignedPresentations(state, merkle_root, current_timestamp) ==
    [merkle_root_verification :
         {<<v>> : v \in SignedRoots(state, merkle_root, current_timestamp)},
     merkle_root_state : {<<>>}]

\* The ways to present a root with the stored records: any of them or none,
\* and any of them next to a root signed in the request.
StoredPresentations(state, records, merkle_root, current_timestamp) ==
    [merkle_root_verification : {<<>>},
     merkle_root_state : {<<>>} \cup {<<m>> : m \in records}]
    \cup [merkle_root_verification :
              {<<VerifyMerkleRootParams(state, state.seed, merkle_root, current_timestamp,
                                        state.multisig.threshold)>>},
          merkle_root_state : {<<m>> : m \in records}]

ExecuteTransactionRequest(executor, action, batch, presentation) ==
    [executor |-> executor,
     remaining_accounts |-> action.remaining_accounts,
     transaction |-> [ix_data |-> action.ix_data, value |-> action.value,
                      proof |-> batch.proof],
     merkle_root_verification |-> presentation.merkle_root_verification,
     merkle_root_state |-> presentation.merkle_root_state]

(***************************************************************************)
(* Spec: one instance from init_one_sig on, with roots signed and stored,  *)
(* requests executed along both paths, records closed, and time passing.   *)
(***************************************************************************)
Callers == {1, 2}

InitParams ==
    [one_sig_id : {1},
     seed : {Hash(1)},
     threshold : {2, 3},
     signers : {<<AddressOf(1), AddressOf(2)>>},
     executors : {<<>>, <<1>>},
     executor_required : {TRUE}]

Actions ==
    {SetConfigAction(SetSeed, 2),
     SetConfigAction(RemoveSigner, AddressOf(2)),
     CallAction(0, TRUE),
     ReenterAction}

StoredActions == {CallAction(0, TRUE)}

OtherAction == CallAction(0, FALSE)

\* The batch of the leaf of c and the leaf of the following nonce.
Pair(c) ==
    LET next == CommittedLeaf([c EXCEPT !.nonce = c.nonce + 1]) IN
    [root |-> computed_hash(CommittedLeaf(c), <<next>>, 1), proof |-> <<next>>]

\* A root signed in the request by the threshold, under the current seed.
Signed(state, merkle_root, current_timestamp) ==
    [merkle_root_verification |->
         <<VerifyMerkleRootParams(state, state.seed, merkle_root, current_timestamp,
                                  state.multisig.threshold)>>,
     merkle_root_state |-> <<>>]

Next ==
    \/ \E params \in InitParams : InitOneSig(params)
    \/ \E action \in StoredActions :
          \E params \in SignedRoots(one_sig_state, Pair(Same(one_sig_state, action)).root,
                                    now) :
             VerifyMerkleRoot(1, params)
    \* another caller
    \/ \E executor \in Callers \ {1}, action \in Actions :
          LET batch == Alone(Same(one_sig_state, action)) IN
          ExecuteTransaction(
              ExecuteTransactionRequest(executor, action, batch,
                                        Signed(one_sig_state, batch.root, now)),
              NoEffect, FALSE)
    \* any commitment
    \/ \E action \in StoredActions :
          \E c \in Commitments(one_sig_state, action, OtherAction) :
             \E batch \in {Alone(c), Pair(c)} :
                ExecuteTransaction(
                    ExecuteTransactionRequest(1, action, batch,
                                              Signed(one_sig_state, batch.root, now)),
                    NoEffect, FALSE)
    \* any root signed in the request
    \/ \E action \in StoredActions :
          \E batch \in {Alone(Same(one_sig_state, action))} :
             \E presentation \in SignedPresentations(one_sig_state, batch.root, now) :
                ExecuteTransaction(
                    ExecuteTransactionRequest(1, action, batch, presentation),
                    NoEffect, FALSE)
    \* any stored record
    \/ \E action \in StoredActions :
          \E batch \in Batches(Same(one_sig_state, action)) :
             \E presentation \in StoredPresentations(one_sig_state, merkle_root_states,
                                                     batch.root, now) :
                ExecuteTransaction(
                    ExecuteTransactionRequest(1, action, batch, presentation),
                    NoEffect, FALSE)
    \* any effect of the invoked program
    \/ \E action \in Actions :
          \E fx \in EffectsOf(action) :
             LET batch == Alone(Same(one_sig_state, action)) IN
             ExecuteTransaction(
                 ExecuteTransactionRequest(1, action, batch,
                                           Signed(one_sig_state, batch.root, now)),
                 fx, FALSE)
    \/ \E signer \in Callers, merkle_root_state \in merkle_root_states :
          CloseMerkleRoot(signer, merkle_root_state)
    \/ Tick

Spec == InitIdle /\ [][Next]_vars

(***************************************************************************)
(* SpecReplay: requests are remembered and submitted again, with the root  *)
(* signed anew or taken from the stored record.                            *)
(***************************************************************************)
ReplayActions == {CallAction(0, TRUE), SetConfigAction(SetSeed, 2)}

NextReplay ==
    \/ \E params \in InitParams : InitOneSig(params)
    \/ \E action \in StoredActions :
          VerifyMerkleRoot(1, Signed(one_sig_state, Pair(Same(one_sig_state, action)).root,
                                     now).merkle_root_verification[1])
    \/ \E track \in BOOLEAN, action \in ReplayActions, nonce \in 0..MaxNonce :
          \E batch \in Batches([Same(one_sig_state, action) EXCEPT !.nonce = nonce]) :
             \E presentation \in
                    {Signed(one_sig_state, batch.root, now)}
                    \cup [merkle_root_verification : {<<>>},
                          merkle_root_state : {<<m>> : m \in merkle_root_states}] :
                ExecuteTransaction(
                    ExecuteTransactionRequest(1, action, batch, presentation),
                    NoEffect, track)

SpecReplay == InitIdle /\ [][NextReplay]_vars

(***************************************************************************)
(* Claims about execute_transaction, checked under Spec and SpecReplay.    *)
(***************************************************************************)
Executed == last.op = "execute_transaction" /\ last.err = Ok

\* C1: the nonce is 0 right after init_one_sig, never decreases, and changes
\* only in a successful execute_transaction, which raises it by exactly 1
\* (also when the action it ran was set_config on this instance);
\* verify_merkle_root, close_merkle_root and every failed instruction leave
\* it as it is.
C1_NonceMonotone ==
    [][/\ (last'.op = "init_one_sig" /\ last'.err = Ok => one_sig_state'.nonce = 0)
       /\ (last'.op = "execute_transaction" /\ last'.err = Ok
              => one_sig_state'.nonce = one_sig_state.nonce + 1)
       /\ (~(last'.op = "execute_transaction" /\ last'.err = Ok)
              => one_sig_state'.nonce = one_sig_state.nonce)]_vars

\* Two executions done, and a record closed afterwards.
C1_Witness_TwoExecutedThenClose ==
    /\ one_sig_state.nonce = 2
    /\ last.op = "close_merkle_root"
    /\ last.err = Ok

\* C2: once a request (action, proof, root) has succeeded, the same action
\* with the same proof against the same root is rejected.
C2_NoReplay ==
    last.op = "execute_transaction" /\ last.replay => last.err # Ok

\* The remembered request was submitted again against its stored record and
\* refused at the proof.
C2_Witness_ReplayRefused ==
    /\ last.op = "execute_transaction"
    /\ last.replay
    /\ last.err = "InvalidProof"
    /\ merkle_root_states # {}
    /\ tracked[1].merkle_root \in {m.merkle_root : m \in merkle_root_states}

\* The rejections that come before the proof is looked at.
RootRejections ==
    {"ExecutorRequired", "ExpiredMerkleRoot", "SeedMismatch", "MissingMerkleRootState",
     "InvalidThreshold", "SignatureDataSizeMismatch", "InsufficientSignatures",
     "FailedSignatureRecovery", "MissingSigner", "DuplicateSigners"}

\* C3: a successful execution had a proof that climbs, by sorted pairs, from
\* the leaf of (this id, this account, the nonce before the execution, the
\* action supplied) to the verified root; a request whose root commits,
\* along the proof, to another id, account, nonce or action is rejected, with
\* InvalidProof once the root itself was accepted.
C3_ProofBindsLeaf ==
    last.op = "execute_transaction" =>
        /\ (last.err = Ok => last.committed = "same")
        /\ (last.committed \in {"version", "id", "key", "nonce", "action"}
               => last.err \in RootRejections \cup {"InvalidProof"})

\* A leaf committed for another OneSigState account was refused here.
C3_Witness_OtherAccountRefused ==
    /\ last.op = "execute_transaction"
    /\ last.committed = "key"
    /\ last.err = "InvalidProof"

MultisigMutators == {"add_signer", "remove_signer", "set_threshold"}

ExecutorsMutators == {"add_executor", "remove_executor", "set_executor_required"}

\* [err, self]: the Result and *self after the call.
Mutator(fn, self, arg) ==
    LET multisig(r) == [err |-> r.err, self |-> r.ms]
        executors(r) == [err |-> r.err, self |-> r.ex]
    IN
    CASE fn = "add_signer" -> multisig(add_signer(self, arg))
      [] fn = "remove_signer" -> multisig(remove_signer(self, arg))
      [] fn = "set_threshold" -> multisig(set_threshold(self, arg))
      [] fn = "add_executor" -> executors(add_executor(self, arg))
      [] fn = "remove_executor" -> executors(remove_executor(self, arg))
      [] fn = "set_executor_required" -> executors(set_executor_required(self, arg = 1))

\* A mutator called on the struct of the instance; nothing is persisted.
CallMutator(fn, arg) ==
    /\ initialized
    /\ \E self \in {IF fn \in MultisigMutators THEN one_sig_state.multisig
                    ELSE one_sig_state.executors} :
          /\ call' = [fn |-> fn, self |-> self, arg |-> arg]
          /\ ret' = Mutator(fn, self, arg)
          /\ last' = Outcome(fn, Mutator(fn, self, arg).err)
    /\ UNCHANGED <<initialized, one_sig_state, merkle_root_states, signer_account, now,
                   tracked>>

MutatorInitParams ==
    [one_sig_id : {1},
     seed : {RosterSeed},
     threshold : {2},
     signers : {<<1, 2>>, Upto(SIGNERS_MAX_LEN)},
     executors : {<<>>, <<1>>, Upto(EXECUTORS_MAX_LEN)},
     executor_required : BOOLEAN]

MutatorArgs == {0, 1, 2, 3, MAX_THRESHOLD, MAX_THRESHOLD + 1}

MutatorConfigParams ==
    [variant : {RemoveSigner, SetThreshold, RemoveExecutor}, arg : {1}]

NextMutators ==
    \/ \E params \in MutatorInitParams : InitOneSig(params)
    \/ \E params \in MutatorConfigParams : SetConfig(params)
    \/ \E fn \in MultisigMutators \cup ExecutorsMutators, arg \in MutatorArgs :
          CallMutator(fn, arg)

SpecMutators == InitIdle /\ [][NextMutators]_vars

\* C11 as stated: a mutator that returns an error leaves the struct it
\* operated on as it was before the call.
C11_AsStated ==
    [][last'.op \in MultisigMutators \cup ExecutorsMutators /\ last'.err # Ok
          => ret'.self = call'.self]_vars

\* C11: add_signer, set_threshold, add_executor and set_executor_required
\* validate before they apply, and so do remove_signer and remove_executor
\* when the entry is not there; remove_signer failing on the threshold and
\* remove_executor failing on the emptied required set return the error with
\* the entry already removed from the struct in memory (nothing else
\* changed).  The account is as before whenever init_one_sig or set_config
\* fails.
C11_FailedMutatorLeavesAccount ==
    [][/\ last'.op \in MultisigMutators \cup ExecutorsMutators /\ last'.err # Ok
             => IF last'.op = "remove_signer" /\ last'.err = "ThresholdExceedsSigners"
                THEN /\ ret'.self.threshold = call'.self.threshold
                     /\ Position(call'.self.signers, call'.arg) # 0
                     /\ ret'.self.signers =
                            RemoveAt(call'.self.signers,
                                     Position(call'.self.signers, call'.arg))
                ELSE IF last'.op = "remove_executor" /\ last'.err = "EmptyExecutorSet"
                THEN /\ ret'.self.executor_required = call'.self.executor_required
                     /\ call'.self.executors = <<call'.arg>>
                     /\ ret'.self.executors = <<>>
                ELSE ret'.self = call'.self
       /\ last'.op \in {"init_one_sig", "set_config"} /\ last'.err # Ok
             => one_sig_state' = one_sig_state]_vars

\* remove_signer returned ThresholdExceedsSigners with the signer gone from
\* the struct in memory, the account unchanged.
C11_Witness_RemovedThenRefused ==
    /\ last.op = "remove_signer"
    /\ last.err = "ThresholdExceedsSigners"
    /\ Len(ret.self.signers) = Len(call.self.signers) - 1
    /\ one_sig_state.multisig = call.self

\* C12: set_threshold(t) succeeds if and only if 1 <= t <= 13 and t is at
\* most the signer count, and then only the threshold changes; t = 0 and
\* t > 13 give InvalidThreshold, also when t exceeds the signer count; t in
\* 1..13 above the signer count gives ThresholdExceedsSigners.
C12_SetThreshold ==
    call.fn = "set_threshold" =>
        LET t == call.arg
            count == Len(call.self.signers)
        IN  /\ ret.err = Ok <=> (1 <= t /\ t <= 13 /\ t <= count)
            /\ ret.err = Ok => ret.self = [call.self EXCEPT !.threshold = t]
            /\ (t = 0 \/ t > 13) => ret.err = "InvalidThreshold"
            /\ (t \in 1..13 /\ t > count) => ret.err = "ThresholdExceedsSigners"

\* A threshold above the cap and above the signer count: InvalidThreshold.
C12_Witness_AboveCapAndCount ==
    /\ call.fn = "set_threshold"
    /\ call.arg > 13
    /\ call.arg > Len(call.self.signers)
    /\ ret.err = "InvalidThreshold"

(***************************************************************************)
(* SpecPaths: the three instructions that deal with roots, each with its   *)
(* inputs kept in call (the accounts and parameters passed, and the state, *)
(* the records and the time it ran against), so that the outcome in last   *)
(* can be set against them.                                                *)
(***************************************************************************)
CallExecuteTransaction(p, fx) ==
    /\ one_sig_state.nonce < MaxNonce
    /\ ExecuteTransaction_instruction(p, fx, FALSE)
    /\ call' = [fn |-> "execute_transaction", p |-> p, state |-> one_sig_state,
                merkle_root_states |-> merkle_root_states, now |-> now]
    /\ UNCHANGED ret

CallVerifyMerkleRoot(payer, params) ==
    /\ VerifyMerkleRoot_instruction(payer, params)
    /\ call' = [fn |-> "verify_merkle_root", payer |-> payer, params |-> params,
                state |-> one_sig_state, merkle_root_states |-> merkle_root_states,
                now |-> now]
    /\ UNCHANGED ret

CallCloseMerkleRoot(signer, merkle_root_state) ==
    /\ CloseMerkleRoot_instruction(signer, merkle_root_state)
    /\ call' = [fn |-> "close_merkle_root", signer |-> signer,
                merkle_root_state |-> merkle_root_state,
                merkle_root_states |-> merkle_root_states, now |-> now]
    /\ UNCHANGED ret

PathInitParams ==
    [one_sig_id : {1},
     seed : {Hash(1)},
     threshold : {2},
     signers : {<<AddressOf(1), AddressOf(2)>>},
     executors : {<<1>>},
     executor_required : BOOLEAN]

PathActions == {CallAction(0, TRUE), SetConfigAction(SetSeed, 2)}

\* The signed roots of SignedRoots, and one that is expired and also signed
\* by one signer too few.
PathSignedRoots(state, merkle_root, current_timestamp) ==
    SignedRoots(state, merkle_root, current_timestamp)
    \cup {VerifyMerkleRootParams(state, state.seed, merkle_root, current_timestamp - 1,
                                 state.multisig.threshold - 1)}

PathSignedPresentations(state, merkle_root, current_timestamp) ==
    [merkle_root_verification :
         {<<v>> : v \in PathSignedRoots(state, merkle_root, current_timestamp)},
     merkle_root_state : {<<>>}]

\* A root signed in the request by the threshold, expired by one second.
SignedExpired(state, merkle_root, current_timestamp) ==
    [merkle_root_verification |->
         <<VerifyMerkleRootParams(state, state.seed, merkle_root, current_timestamp - 1,
                                  state.multisig.threshold)>>,
     merkle_root_state |-> <<>>]

\* The records verify_merkle_root has made of the root for the instance at
\* OtherStateKey, with the same seed: one just expired and one not.
RecordsOfOther(state, merkle_root, current_timestamp) ==
    [key : {MerkleRootStateKey(OtherStateKey, merkle_root)},
     merkle_root : {merkle_root},
     seed : {state.seed},
     expiry : {expiry \in {current_timestamp - 1, current_timestamp} : expiry >= 0},
     rent_payer : {1},
     bump : {find_program_address_bump}]

NextPaths ==
    \/ \E params \in PathInitParams : InitOneSig(params)
    \/ \E action \in StoredActions :
          \E params \in PathSignedRoots(one_sig_state,
                                        Alone(Same(one_sig_state, action)).root, now) :
             CallVerifyMerkleRoot(1, params)
    \* any presentation of the root, by the executor
    \/ \E action \in PathActions :
          \E batch \in {Alone(Same(one_sig_state, action))} :
             \E presentation \in
                    PathSignedPresentations(one_sig_state, batch.root, now)
                    \cup StoredPresentations(one_sig_state, merkle_root_states,
                                             batch.root, now) :
                CallExecuteTransaction(
                    ExecuteTransactionRequest(1, action, batch, presentation), NoEffect)
    \* another caller
    \/ \E executor \in Callers \ {1}, action \in StoredActions :
          \E batch \in {Alone(Same(one_sig_state, action))} :
             \E presentation \in
                    {Signed(one_sig_state, batch.root, now),
                     SignedExpired(one_sig_state, batch.root, now)}
                    \cup StoredPresentations(one_sig_state, merkle_root_states,
                                             batch.root, now) :
                CallExecuteTransaction(
                    ExecuteTransactionRequest(executor, action, batch, presentation),
                    NoEffect)
    \* a record of another instance
    \/ \E executor \in Callers, action \in StoredActions :
          \E batch \in {Alone(Same(one_sig_state, action))} :
             \E m \in RecordsOfOther(one_sig_state, batch.root, now) :
                CallExecuteTransaction(
                    ExecuteTransactionRequest(executor, action, batch,
                                              [merkle_root_verification |-> <<>>,
                                               merkle_root_state |-> <<m>>]),
                    NoEffect)
    \/ \E signer \in Callers, merkle_root_state \in merkle_root_states :
          CallCloseMerkleRoot(signer, merkle_root_state)
    \/ Tick

SpecPaths == InitIdle /\ [][NextPaths]_vars

(***************************************************************************)
(* SpecRecords: records made and closed by either caller, with roots       *)
(* executed and the seed set in between.                                   *)
(***************************************************************************)
NextRecords ==
    \/ \E params \in PathInitParams : InitOneSig(params)
    \/ \E payer \in Callers, action \in StoredActions :
          \E params \in PathSignedRoots(one_sig_state,
                                        Alone(Same(one_sig_state, action)).root, now) :
             CallVerifyMerkleRoot(payer, params)
    \* a root signed in the request
    \/ \E action \in PathActions :
          \E batch \in {Alone(Same(one_sig_state, action))} :
             CallExecuteTransaction(
                 ExecuteTransactionRequest(1, action, batch,
                                           Signed(one_sig_state, batch.root, now)),
                 NoEffect)
    \* a stored record
    \/ \E action \in StoredActions, m \in merkle_root_states :
          \E batch \in {Alone(Same(one_sig_state, action))} :
             CallExecuteTransaction(
                 ExecuteTransactionRequest(1, action, batch,
                                           [merkle_root_verification |-> <<>>,
                                            merkle_root_state |-> <<m>>]),
                 NoEffect)
    \/ \E signer \in Callers, merkle_root_state \in merkle_root_states :
          CallCloseMerkleRoot(signer, merkle_root_state)
    \/ Tick

SpecRecords == InitIdle /\ [][NextRecords]_vars

(***************************************************************************)
(* Claims about the paths, checked under SpecPaths.                        *)
(***************************************************************************)
\* The latest step was execute_transaction / verify_merkle_root /
\* close_merkle_root, with its inputs in call.
Executing == last.op = "execute_transaction" /\ call.fn = "execute_transaction"

Verifying == last.op = "verify_merkle_root" /\ call.fn = "verify_merkle_root"

Closing == last.op = "close_merkle_root" /\ call.fn = "close_merkle_root"

\* The record of the request is at the address derived for this instance.
OwnRecord ==
    call.p.merkle_root_state[1].key
        = MerkleRootStateKey(OneSigStateKey, call.p.merkle_root_state[1].merkle_root)

\* The request carries a signed root / a stored record.
Direct == call.p.merkle_root_verification # <<>>

WithRecord == call.p.merkle_root_state # <<>>

\* The caller passes the executor gate.
GatePassed ==
    \/ ~call.state.executors.executor_required
    \/ Contains(call.state.executors.executors, call.p.executor)

\* C13 as stated: on either path and in verify_merkle_root, expiry < now is
\* rejected with ExpiredMerkleRoot and expiry = now is not rejected for
\* expiry.
C13_AsStated ==
    /\ Executing /\ Direct =>
          /\ call.p.merkle_root_verification[1].expiry < call.now
                => last.err = "ExpiredMerkleRoot"
          /\ call.p.merkle_root_verification[1].expiry = call.now /\ ~WithRecord
                => last.err # "ExpiredMerkleRoot"
    /\ Executing /\ ~Direct /\ WithRecord /\ OwnRecord =>
          /\ call.p.merkle_root_state[1].expiry < call.now => last.err = "ExpiredMerkleRoot"
          /\ call.p.merkle_root_state[1].expiry = call.now => last.err # "ExpiredMerkleRoot"
    /\ Verifying =>
          /\ call.params.expiry < call.now => last.err = "ExpiredMerkleRoot"
          /\ call.params.expiry = call.now => last.err # "ExpiredMerkleRoot"

\* C13: a root with expiry < now is always rejected and one with expiry = now
\* is never rejected for its expiry.  The rejection is ExpiredMerkleRoot for
\* a stored record of the instance whenever one is passed; for a root signed
\* in the request
\* once the caller has passed the executor gate (ExecutorRequired comes
\* first), whatever the signatures are; and in verify_merkle_root unless a
\* record of that root exists already (then the account creation fails
\* first).
C13_ExpiryInclusive ==
    /\ Executing /\ WithRecord =>
          /\ call.p.merkle_root_state[1].expiry < call.now =>
                /\ last.err # Ok
                /\ OwnRecord => last.err = "ExpiredMerkleRoot"
          /\ call.p.merkle_root_state[1].expiry = call.now /\ ~Direct
                => last.err # "ExpiredMerkleRoot"
    /\ Executing /\ Direct =>
          /\ call.p.merkle_root_verification[1].expiry < call.now =>
                /\ last.err # Ok
                /\ GatePassed /\ ~WithRecord => last.err = "ExpiredMerkleRoot"
          /\ call.p.merkle_root_verification[1].expiry = call.now /\ ~WithRecord
                => last.err # "ExpiredMerkleRoot"
    /\ Verifying =>
          /\ call.params.expiry < call.now =>
                /\ last.err # Ok
                /\ (\A m \in call.merkle_root_states :
                        m.merkle_root # call.params.merkle_root)
                      => last.err = "ExpiredMerkleRoot"
          /\ call.params.expiry = call.now => last.err # "ExpiredMerkleRoot"

\* A stored record one second past its expiry was refused on the two-step
\* path.
C13_Witness_RecordJustExpired ==
    /\ Executing /\ ~Direct /\ WithRecord
    /\ call.p.merkle_root_state[1].expiry = call.now - 1
    /\ last.err = "ExpiredMerkleRoot"

\* The request got as far as the proof: it was not refused by an account
\* constraint, by the executor gate or for its root.
LeafVerified == last.err \notin RootRejections \cup {"ConstraintSeeds", "panic"}

\* C15: a request with no root signed in it gets as far as the proof only
\* with a record at the address derived for this instance, stored by this
\* instance, with expiry >= now and the seed of the instance, and succeeds
\* only if the root of that record commits to the leaf; with no record it is
\* refused, with MissingMerkleRootState once the caller is past the executor
\* gate; with a record at the address derived for another instance it is
\* refused.
C15_TwoStep ==
    Executing /\ ~Direct =>
        /\ LeafVerified =>
              /\ WithRecord
              /\ OwnRecord
              /\ call.p.merkle_root_state[1] \in call.merkle_root_states
              /\ call.p.merkle_root_state[1].expiry >= call.now
              /\ call.p.merkle_root_state[1].seed = call.state.seed
        /\ last.err = Ok =>
              Committed(call.p.merkle_root_state[1].merkle_root, call.p.transaction.proof,
                        OneSigStateKey, call.state.one_sig_id, call.state.nonce,
                        build_instruction(OneSigSignerKey, call.p.transaction,
                                          call.p.remaining_accounts)) = "same"
        /\ ~WithRecord =>
              /\ last.err # Ok
              /\ GatePassed => last.err = "MissingMerkleRootState"
        /\ WithRecord /\ ~OwnRecord => last.err # Ok

\* An unexpired record of the same root and seed, made for another instance,
\* was refused although the caller may execute.
C15_Witness_RecordOfOtherRefused ==
    /\ Executing /\ ~Direct /\ WithRecord /\ ~OwnRecord /\ GatePassed
    /\ call.p.merkle_root_state[1].expiry >= call.now
    /\ call.p.merkle_root_state[1].seed = call.state.seed
    /\ last.err = "ConstraintSeeds"

\* The signatures of v are by at least the threshold of distinct signers of
\* the roster of state, each over the digest of (the seed of state, the root
\* and the expiry of v).
SignedByRoster(state, v) ==
    LET chunks == v.signatures.chunks IN
    /\ v.signatures.rem = 0
    /\ state.multisig.threshold >= 1
    /\ Len(chunks) >= state.multisig.threshold
    /\ \A i \in DOMAIN chunks :
          /\ chunks[i].rs.msg = sign_digest(state.seed, v.merkle_root, v.expiry)
          /\ Contains(state.multisig.signers, AddressOf(chunks[i].rs.key))
          /\ \A j \in 1..(i - 1) : chunks[j].rs.key # chunks[i].rs.key

\* C16: a record comes to exist only in a successful verify_merkle_root
\* whose root was signed by the threshold of the roster over the live seed
\* with expiry >= now, and it holds that root, that expiry, the live seed
\* and the payer, at the address derived for the instance; a failed
\* verify_merkle_root leaves the records as they were.
C16_RecordOnlyWhenVerified ==
    [][/\ ~(merkle_root_states' \subseteq merkle_root_states) =>
             /\ last'.op = "verify_merkle_root" /\ last'.err = Ok
             /\ call'.fn = "verify_merkle_root"
             /\ call'.state = one_sig_state /\ call'.now = now
             /\ call'.params.expiry >= now
             /\ SignedByRoster(one_sig_state, call'.params)
             /\ merkle_root_states' = merkle_root_states \cup
                    {[key |-> MerkleRootStateKey(OneSigStateKey, call'.params.merkle_root),
                      merkle_root |-> call'.params.merkle_root,
                      expiry |-> call'.params.expiry,
                      seed |-> one_sig_state.seed,
                      rent_payer |-> call'.payer,
                      bump |-> find_program_address_bump]}
       /\ last'.op = "verify_merkle_root" /\ last'.err # Ok =>
             merkle_root_states' = merkle_root_states]_vars

\* The latest verify_merkle_root, paid for by the second caller, made the
\* record of its root, with that payer.
C16_Witness_RecordOfSecondPayer ==
    /\ Verifying /\ last.err = Ok
    /\ call.payer = 2
    /\ \E m \in merkle_root_states :
          /\ m \notin call.merkle_root_states
          /\ m.rent_payer = 2 /\ m.seed = call.state.seed
          /\ m.merkle_root = call.params.merkle_root /\ m.expiry = call.params.expiry

\* C17: a record ceases to exist only in a successful close_merkle_root of
\* that record, called by its rent_payer when its expiry < now; a
\* close_merkle_root by another caller is refused with Unauthorized, one by
\* the rent_payer at expiry >= now with MerkleRootNotExpired, and both leave
\* the records as they were.
C17_CloseOnlyByPayerAfterExpiry ==
    [][/\ ~(merkle_root_states \subseteq merkle_root_states') =>
             /\ last'.op = "close_merkle_root" /\ last'.err = Ok
             /\ call'.fn = "close_merkle_root"
             /\ call'.merkle_root_state \in merkle_root_states
             /\ call'.signer = call'.merkle_root_state.rent_payer
             /\ call'.merkle_root_state.expiry < now
             /\ merkle_root_states' = merkle_root_states \ {call'.merkle_root_state}
       /\ last'.op = "close_merkle_root" /\ call'.fn = "close_merkle_root" =>
             /\ call'.signer # call'.merkle_root_state.rent_payer =>
                   /\ last'.err = "Unauthorized"
                   /\ merkle_root_states' = merkle_root_states
             /\ call'.signer = call'.merkle_root_state.rent_payer
                   /\ call'.merkle_root_state.expiry >= now =>
                   /\ last'.err = "MerkleRootNotExpired"
                   /\ merkle_root_states' = merkle_root_states]_vars

\* The rent_payer's close_merkle_root at expiry = now was refused and the
\* record is still there.
C17_Witness_CloseAtExpiryRefused ==
    /\ Closing
    /\ call.signer = call.merkle_root_state.rent_payer
    /\ call.merkle_root_state.expiry = call.now
    /\ last.err = "MerkleRootNotExpired"
    /\ call.merkle_root_state \in merkle_root_states

\* The record of the request fails a constraint on its account.
RecordRefused ==
    /\ WithRecord
    /\ \/ ~OwnRecord
       \/ call.p.merkle_root_state[1].expiry < call.now
       \/ call.p.merkle_root_state[1].seed # call.state.seed

\* C18 as stated: with executor_required, a caller who is not among the
\* executors is refused with ExecutorRequired whatever else the request
\* holds; without executor_required nobody is.
C18_AsStated ==
    Executing =>
        /\ ~GatePassed => last.err = "ExecutorRequired"
        /\ ~call.state.executors.executor_required => last.err # "ExecutorRequired"

\* C18: with executor_required, a caller who is not among the executors is
\* always refused, before the signatures, the digest and the proof are looked
\* at: with ExecutorRequired, unless the request passes a record that fails a
\* constraint on its account (address, expiry, seed), which is refused with
\* the error of that constraint first.  A caller among the executors, and
\* any caller without executor_required, is never refused with
\* ExecutorRequired.
C18_ExecutorGate ==
    Executing =>
        /\ ~GatePassed =>
              /\ RecordRefused =>
                    last.err \in {"ConstraintSeeds", "ExpiredMerkleRoot", "SeedMismatch"}
              /\ ~RecordRefused => last.err = "ExecutorRequired"
        /\ GatePassed => last.err # "ExecutorRequired"

\* A caller who is not among the executors, and whose number is in the
\* roster, was refused with ExecutorRequired although the root of the request
\* is signed by the threshold of the roster and commits to the leaf.
C18_Witness_SignedRootRefusedAtGate ==
    /\ Executing /\ ~GatePassed /\ Direct /\ ~WithRecord
    /\ Contains(call.state.multisig.signers, call.p.executor)
    /\ SignedByRoster(call.state, call.p.merkle_root_verification[1])
    /\ call.p.merkle_root_verification[1].expiry >= call.now
    /\ last.committed = "same"
    /\ last.err = "ExecutorRequired"

(***************************************************************************)
(* SpecSeeds: the seed is set and set again by execute_transaction, with   *)
(* roots stored and signed under each seed.  ret remembers the records     *)
(* that were there and the seeds that were live when the seed changed      *)
(* (call.earlier: as remembered when the request came).                    *)
(***************************************************************************)
MaxSeedNonce == 3

InitSeeds ==
    /\ InitInstance
    /\ call = NoCall
    /\ ret = [merkle_root_states |-> {}, seeds |-> {}]

SeedInitParams ==
    [one_sig_id : {1},
     seed : {Hash(1)},
     threshold : {2},
     signers : {<<AddressOf(1), AddressOf(2)>>},
     executors : {<<>>},
     executor_required : {FALSE}]

SeedActions == {SetConfigAction(SetSeed, 1), SetConfigAction(SetSeed, 2)}

\* The batch of `action` alone at a nonce to come.
Later(state, action, nonce) == Alone([Same(state, action) EXCEPT !.nonce = nonce])

\* A root signed in the request by the threshold under `seed`.
SignedUnder(state, seed, merkle_root, current_timestamp) ==
    [merkle_root_verification |->
         <<VerifyMerkleRootParams(state, seed, merkle_root, current_timestamp,
                                  state.multisig.threshold)>>,
     merkle_root_state |-> <<>>]

SeedExecuteTransaction(p) ==
    /\ one_sig_state.nonce < MaxSeedNonce
    /\ ExecuteTransaction_instruction(p, NoEffect, FALSE)
    /\ call' = [fn |-> "execute_transaction", p |-> p, state |-> one_sig_state,
                merkle_root_states |-> merkle_root_states, now |-> now, earlier |-> ret]
    /\ ret' = IF one_sig_state'.seed # one_sig_state.seed
              THEN [merkle_root_states |-> ret.merkle_root_states \cup merkle_root_states,
                    seeds |-> ret.seeds \cup {one_sig_state.seed}]
              ELSE ret

NextSeeds ==
    \/ \E params \in SeedInitParams : InitOneSig(params)
    \* a root for the last nonce is stored
    \/ \E action \in StoredActions :
          VerifyMerkleRoot(1, Signed(one_sig_state,
                                     Later(one_sig_state, action, MaxSeedNonce - 1).root,
                                     now).merkle_root_verification[1])
    \* the seed is set
    \/ \E action \in SeedActions :
          \E batch \in {Alone(Same(one_sig_state, action))} :
             SeedExecuteTransaction(
                 ExecuteTransactionRequest(1, action, batch,
                                           Signed(one_sig_state, batch.root, now)))
    \* the stored action is requested, with a record or signed under a seed
    \/ \E action \in StoredActions :
          \E batch \in {Alone(Same(one_sig_state, action))} :
             \E presentation \in
                    {SignedUnder(one_sig_state, seed, batch.root, now) : seed \in Seeds}
                    \cup [merkle_root_verification : {<<>>},
                          merkle_root_state : {<<m>> : m \in merkle_root_states}] :
                SeedExecuteTransaction(
                    ExecuteTransactionRequest(1, action, batch, presentation))
    \/ Tick

SpecSeeds == InitSeeds /\ [][NextSeeds]_vars

\* The signatures of the request are over the digest of (seed, root, expiry).
SignedOver(seed) ==
    LET v == call.p.merkle_root_verification[1] IN
    /\ v.signatures.chunks # <<>>
    /\ \A i \in DOMAIN v.signatures.chunks :
          v.signatures.chunks[i].rs.msg = sign_digest(seed, v.merkle_root, v.expiry)

\* C14 as stated: once the seed has been set anew, a record verified before
\* that, and signatures over the digest of a seed that was live before that,
\* are refused in every later state.
C14_AsStated ==
    Executing =>
        /\ ~Direct /\ WithRecord
              /\ call.p.merkle_root_state[1] \in call.earlier.merkle_root_states
              => last.err # Ok
        /\ Direct /\ (\E seed \in call.earlier.seeds : SignedOver(seed)) => last.err # Ok

\* C14: a record whose stored seed differs from the live seed is refused,
\* with SeedMismatch while it is unexpired, and signatures over the digest of
\* another seed than the live one do not verify; a record whose seed is the
\* live seed is not refused for its seed, so setting the seed back to an
\* earlier value makes the commitments of that seed usable again.
C14_SeedBindsCommitments ==
    Executing =>
        /\ WithRecord /\ call.p.merkle_root_state[1].seed # call.state.seed
              => /\ last.err \in {"SeedMismatch", "ExpiredMerkleRoot"}
                 /\ call.p.merkle_root_state[1].expiry >= call.now
                       => last.err = "SeedMismatch"
        /\ WithRecord /\ call.p.merkle_root_state[1].seed = call.state.seed
              => last.err # "SeedMismatch"
        /\ Direct /\ (\E seed \in Seeds \ {call.state.seed} : SignedOver(seed))
              => last.err # Ok

\* A record verified before the seed was set anew, still unexpired, was
\* refused with SeedMismatch.
C14_Witness_RecordOfEarlierSeed ==
    /\ Executing /\ ~Direct /\ WithRecord
    /\ call.p.merkle_root_state[1] \in call.earlier.merkle_root_states
    /\ call.p.merkle_root_state[1].expiry >= call.now
    /\ last.err = "SeedMismatch"

(***************************************************************************)
(* SpecProof: verify_merkle_proof called as a library function, as the     *)
(* tests of merkle_tests.rs call it, on leaves, siblings and roots that    *)
(* are digests of bytes and of pairs.                                      *)
(***************************************************************************)
MaxProofHash == 3

MaxProofLen == 2

ProofHashes == {Hash(n) : n \in 1..MaxProofHash} \cup {hashv2(Hash(1), Hash(2))}

\* The node above a and b: the digest of the smaller followed by the larger.
SmallerHash(a, b) == IF HashLess(b, a) THEN b ELSE a

LargerHash(a, b) == IF HashLess(b, a) THEN a ELSE b

Node(a, b) == hashv2(SmallerHash(a, b), LargerHash(a, b))

\* The value n levels above leaf along proof.
RECURSIVE Climbed(_, _, _)
Climbed(leaf, proof, n) ==
    IF n = 0 THEN leaf ELSE Node(Climbed(leaf, proof, n - 1), proof[n])

\* The roots a proof is checked against: the value above the whole proof,
\* the value one level below it, the value with the leaf always first, the
\* leaf, and a digest that is none of these.
ProofRoots(leaf, proof) ==
    {Climbed(leaf, proof, Len(proof)),
     Climbed(leaf, proof, IF proof = <<>> THEN 0 ELSE Len(proof) - 1),
     computed_hash_unsorted(leaf, proof, 1),
     leaf,
     Hash(0)}

ProofCalls ==
    UNION {[fn : {"verify_merkle_proof"},
            merkle_root : ProofRoots(leaf, proof),
            proof : {proof},
            leaf : {leaf}] : leaf \in ProofHashes,
                             proof \in SeqsUpTo(ProofHashes, MaxProofLen)}

InitProof ==
    /\ InitInstance
    /\ call \in ProofCalls
    /\ ret = NoRet

CallVerifyMerkleProof ==
    /\ call.fn = "verify_merkle_proof"
    /\ ret = NoRet
    /\ ret' = [err |-> verify_merkle_proof(call.merkle_root, call.proof, call.leaf)]
    /\ UNCHANGED <<instance_vars, call>>

NextProof == CallVerifyMerkleProof

SpecProof == InitProof /\ [][NextProof]_vars

(***************************************************************************)
(* Claims about verify_merkle_proof, checked under SpecProof.              *)
(***************************************************************************)
\* C19: verify_merkle_proof succeeds exactly when the value above the whole
\* proof, each node being the digest of the smaller of (value, sibling)
\* followed by the larger, is the root, and fails with InvalidProof
\* otherwise; with the empty proof, exactly when the leaf is the root.  The
\* node of a pair is the same whichever of the two is the value and
\* whichever the sibling, so the leaf and the first sibling can change
\* places.
C19_SortedPairFold ==
    call.fn = "verify_merkle_proof" /\ Returned =>
        /\ ret.err \in {Ok, "InvalidProof"}
        /\ ret.err = Ok <=>
              Climbed(call.leaf, call.proof, Len(call.proof)) = call.merkle_root
        /\ call.proof = <<>> => (ret.err = Ok <=> call.leaf = call.merkle_root)
        /\ \A i \in DOMAIN call.proof :
              /\ Node(call.leaf, call.proof[i]) = Node(call.proof[i], call.leaf)
              /\ computed_hash(call.leaf, <<call.proof[i]>>, 1)
                    = computed_hash(call.proof[i], <<call.leaf>>, 1)
        /\ call.proof # <<>> =>
              ret.err = verify_merkle_proof(call.merkle_root,
                                            <<call.leaf>> \o Tail(call.proof),
                                            call.proof[1])

\* A proof of two siblings, the first smaller than the leaf and so hashed
\* before it, was accepted for a root that is not the digest of the leaf
\* followed by the sibling.
C19_Witness_SiblingFirst ==
    /\ call.fn = "verify_merkle_proof" /\ Returned
    /\ Len(call.proof) = 2
    /\ HashLess(call.proof[1], call.leaf)
    /\ call.merkle_root # computed_hash_unsorted(call.leaf, call.proof, 1)
    /\ ret.err = Ok

(***************************************************************************)
(* SpecConfig: set_config called in a transaction of its own, by callers   *)
(* who sign with their own key or name the PDA without its signature (the  *)
(* PDA has no private key), and set_config reached through                 *)
(* execute_transaction.                                                    *)
(***************************************************************************)
\* Any signer is taken for the PDA (for comparison).
SetConfig_constraints_any_signer(one_sig_signer) ==
    IF ~one_sig_signer.is_signer THEN "AccountNotSigner" ELSE Ok

\* The account constraints of SetConfig: one_sig_signer has signed, and is
\* at the address derived from [ONE_SIG_SEED, state.key()].
SetConfig_constraints(one_sig_signer) ==
    IF ~one_sig_signer.is_signer THEN "AccountNotSigner"
    ELSE IF one_sig_signer.pubkey # OneSigSignerKey THEN "ConstraintSeeds"
    ELSE Ok

\* The instruction as the runtime runs it: account constraints, then apply.
SetConfig_run(state, one_sig_signer, params) ==
    LET c == SetConfig_constraints(one_sig_signer) IN
    IF c # Ok THEN [err |-> c, state |-> state] ELSE SetConfig_apply(state, params)

CallSetConfig(one_sig_signer, params) ==
    /\ initialized
    /\ \E r \in {SetConfig_run(one_sig_state, one_sig_signer, params)} :
       /\ one_sig_state' = commit(r.err, one_sig_state, r.state)
       /\ last' = Outcome("set_config", r.err)
    /\ call' = [fn |-> "set_config", one_sig_signer |-> one_sig_signer, params |-> params,
                state |-> one_sig_state]
    /\ UNCHANGED <<initialized, merkle_root_states, signer_account, now, tracked, ret>>

\* The one_sig_signer accounts a transaction can carry: a caller's own key,
\* signed, or the PDA, unsigned.
OutsideSigners ==
    {[pubkey |-> caller, is_signer |-> TRUE] : caller \in Callers}
    \cup {[pubkey |-> OneSigSignerKey, is_signer |-> FALSE]}

\* A call of set_config on this program with `key` in the place of the PDA.
SetConfigActionAs(key, variant, arg) ==
    [remaining_accounts |-> <<AccountInfo(ID, FALSE), AccountInfo(key, FALSE),
                              AccountInfo(OneSigStateKey, TRUE)>>,
     ix_data |-> SetConfig_DISCRIMINATOR \o <<variant, arg>>,
     value |-> 0]

ConfigActions ==
    {SetConfigAction(SetSeed, 2),
     SetConfigAction(SetThreshold, 1),
     SetConfigAction(RemoveSigner, AddressOf(2)),
     SetConfigAction(AddExecutor, 2),
     SetConfigAction(SetExecutorRequired, 1),
     SetConfigActionAs(1, SetSeed, 2),
     CallAction(0, TRUE)}

ConfigParams ==
    [variant : {RemoveSigner, SetThreshold, SetSeed, AddExecutor, SetExecutorRequired},
     arg : {1}]

ConfigInitParams ==
    [one_sig_id : {1},
     seed : {Hash(1)},
     threshold : {2},
     signers : {<<AddressOf(1), AddressOf(2)>>},
     executors : {<<1>>},
     executor_required : {FALSE}]

\* A root signed in the request by one signer fewer than the threshold.
SignedByTooFew(state, merkle_root, current_timestamp) ==
    [merkle_root_verification |->
         <<VerifyMerkleRootParams(state, state.seed, merkle_root, current_timestamp,
                                  state.multisig.threshold - 1)>>,
     merkle_root_state |-> <<>>]

NextConfig ==
    \/ \E params \in ConfigInitParams : InitOneSig(params)
    \/ \E one_sig_signer \in OutsideSigners, params \in ConfigParams :
          CallSetConfig(one_sig_signer, params)
    \/ \E action \in ConfigActions :
          \E batch \in {Alone(Same(one_sig_state, action))} :
             \E presentation \in {Signed(one_sig_state, batch.root, now),
                                  SignedByTooFew(one_sig_state, batch.root, now)} :
                CallExecuteTransaction(
                    ExecuteTransactionRequest(1, action, batch, presentation), NoEffect)

SpecConfig == InitIdle /\ [][NextConfig]_vars

(***************************************************************************)
(* Claims about the configuration, checked under SpecConfig.               *)
(***************************************************************************)
\* The signers, the threshold, the seed, the executors and executor_required.
Config(state) == <<state.multisig, state.seed, state.executors>>

\* The instruction the request of call builds.
Built(c) == build_instruction(OneSigSignerKey, c.p.transaction, c.p.remaining_accounts)

\* C20: once the instance is initialized, its signers, threshold, seed,
\* executors and executor_required change only in a successful
\* execute_transaction whose instruction is set_config of this program with
\* the PDA as its signer, on a root signed by the threshold of the roster
\* that commits to the leaf, and the nonce goes up by one in that step;
\* set_config called with any other signer, or with the PDA unsigned,
\* changes nothing.
C20_ConfigOnlyThroughExecute ==
    [][/\ initialized /\ Config(one_sig_state') # Config(one_sig_state) =>
             /\ last'.op = "execute_transaction" /\ last'.err = Ok
             /\ call'.fn = "execute_transaction" /\ call'.state = one_sig_state
             /\ one_sig_state'.nonce = one_sig_state.nonce + 1
             /\ Built(call').program_id = ID
             /\ SubSeq(Built(call').data, 1, 8) = SetConfig_DISCRIMINATOR
             /\ Built(call').accounts[1].pubkey = OneSigSignerKey
             /\ Built(call').accounts[1].is_signer
             /\ last'.committed = "same"
             /\ call'.p.merkle_root_verification # <<>>
             /\ SignedByRoster(one_sig_state, call'.p.merkle_root_verification[1])
       /\ last'.op = "set_config" /\ call'.fn = "set_config" =>
             /\ last'.err # Ok
             /\ one_sig_state' = one_sig_state]_vars

\* A successful execute_transaction has changed the threshold through
\* set_config, with the nonce one higher than before.
C20_Witness_ThresholdSetInsideExecute ==
    /\ Executing /\ last.err = Ok
    /\ one_sig_state.multisig.threshold # call.state.multisig.threshold
    /\ one_sig_state.nonce = call.state.nonce + 1
    /\ Built(call).accounts[1] = [pubkey |-> OneSigSignerKey, is_signer |-> TRUE,
                                  is_writable |-> FALSE]

(***************************************************************************)
(* SpecAgent: execute_transaction of calls of another program that is      *)
(* handed the one_sig_signer account, with declared values near 0 and near *)
(* 2^64 and with every effect on the account.                              *)
(***************************************************************************)
U64_MAX == -1

AgentValues == {0, 1, U64_MAX}

\* The invoked program returns without error, leaving the account in any
\* way, or fails.
AgentEffects ==
    [ok : {TRUE},
     lamports : 0..MaxLamports,
     owner : {SYSTEM_PROGRAM_ID, OtherProgram},
     data_is_empty : BOOLEAN]
    \cup {[NoEffect EXCEPT !.ok = FALSE]}

AgentExecuteTransaction(p, fx) ==
    /\ one_sig_state.nonce < MaxNonce
    /\ ExecuteTransaction_instruction(p, fx, FALSE)
    /\ call' = [fn |-> "execute_transaction", p |-> p, state |-> one_sig_state,
                one_sig_signer |-> signer_account, fx |-> fx]
    /\ UNCHANGED ret

\* Calls whose target or payload is this program's: execute_transaction
\* with and without parameters after the discriminator, set_config, a
\* payload shorter than a discriminator, and another program handed
\* execute_transaction's payload.
EntryPointActions ==
    {ReenterAction,
     [ReenterAction EXCEPT !.ix_data = ExecuteTransaction_DISCRIMINATOR],
     SetConfigAction(SetSeed, 2),
     [ReenterAction EXCEPT !.ix_data = <<1, 2>>],
     [CallAction(0, FALSE) EXCEPT !.ix_data = ReenterAction.ix_data]}

NextAgent ==
    \/ \E params \in ConfigInitParams : InitOneSig(params)
    \/ \E action \in EntryPointActions, fx \in {NoEffect, [NoEffect EXCEPT !.ok = FALSE]} :
          \E batch \in {Alone(Same(one_sig_state, action))} :
             AgentExecuteTransaction(
                 ExecuteTransactionRequest(1, action, batch,
                                           Signed(one_sig_state, batch.root, now)),
                 fx)
    \/ \E value \in AgentValues, is_writable \in BOOLEAN, fx \in AgentEffects :
          \E action \in {CallAction(value, is_writable)} :
             \E batch \in {Alone(Same(one_sig_state, action))} :
                AgentExecuteTransaction(
                    ExecuteTransactionRequest(1, action, batch,
                                              Signed(one_sig_state, batch.root, now)),
                    fx)

SpecAgent == InitIdle /\ [][NextAgent]_vars

(***************************************************************************)
(* Claims about the one_sig_signer account, checked under SpecAgent.       *)
(***************************************************************************)
\* The invoked program returned without error.
Invoked == call.fx.ok

\* The one_sig_signer account as the invoked program left it.
LeftAs ==
    IF \E i \in DOMAIN call.p.remaining_accounts :
           /\ i > 1
           /\ call.p.remaining_accounts[i].pubkey = OneSigSignerKey
           /\ call.p.remaining_accounts[i].is_writable
    THEN [lamports |-> call.fx.lamports, owner |-> call.fx.owner,
          data_is_empty |-> call.fx.data_is_empty]
    ELSE call.one_sig_signer

\* The lamports the invoked program took are no more than the declared
\* value (a value written n < 0 is 2^64 + n, above every balance here).
WithinDeclared ==
    \/ call.p.transaction.value < 0
    \/ call.one_sig_signer.lamports - LeftAs.lamports <= call.p.transaction.value

\* C21: a successful execute_transaction took no more than the declared
\* value from one_sig_signer and raised the nonce by one; a call that took
\* more is refused with ExcessiveBalanceDeduction, the nonce unchanged; a
\* call that took no more than it declared is not refused by the balance
\* check, whatever u64 the declared value is.
C21_AsStated ==
    Executing =>
        /\ last.err = Ok =>
              /\ WithinDeclared
              /\ one_sig_state.nonce = call.state.nonce + 1
        /\ Invoked /\ ~WithinDeclared =>
              /\ last.err = "ExcessiveBalanceDeduction"
              /\ one_sig_state = call.state
        /\ WithinDeclared => last.err \notin {"ExcessiveBalanceDeduction", "panic"}

\* The part of C21 that holds: no successful execute_transaction took more
\* than the declared value, and a call that took more is refused with
\* ExcessiveBalanceDeduction, the nonce unchanged.
C21_NoDrainBeyondDeclared ==
    Executing =>
        /\ last.err = Ok =>
              /\ WithinDeclared
              /\ one_sig_state.nonce = call.state.nonce + 1
        /\ Invoked /\ ~WithinDeclared =>
              /\ last.err = "ExcessiveBalanceDeduction"
              /\ one_sig_state = call.state
        /\ WithinDeclared /\ call.p.transaction.value >= 0 =>
              last.err \notin {"ExcessiveBalanceDeduction", "panic"}

\* The balance check lets the call of the request pass.
BalanceKept ==
    /\ WithinDeclared
    /\ call.p.transaction.value >= 0 \/ LeftAs.lamports = 0

\* C22: after every successful execute_transaction, and so in every state
\* of the initialized instance, one_sig_signer is owned by the system
\* program and holds no data; a call that leaves it owned by another
\* program, or with data, is refused and the nonce stays: with
\* InvalidSignerOwner, or NonEmptySignerData when only the data is left,
\* once the balance check has let the call pass.
C22_AgentStaysSystemOwned ==
    /\ initialized =>
          signer_account.owner = SYSTEM_PROGRAM_ID /\ signer_account.data_is_empty
    /\ Executing /\ Invoked /\ LeftAs.owner # SYSTEM_PROGRAM_ID =>
          /\ last.err # Ok
          /\ one_sig_state = call.state /\ signer_account = call.one_sig_signer
          /\ BalanceKept => last.err = "InvalidSignerOwner"
    /\ Executing /\ Invoked /\ ~LeftAs.data_is_empty =>
          /\ last.err # Ok
          /\ one_sig_state = call.state /\ signer_account = call.one_sig_signer
          /\ BalanceKept /\ LeftAs.owner = SYSTEM_PROGRAM_ID
                => last.err = "NonEmptySignerData"

\* A call that took nothing from one_sig_signer but left it with data, still
\* owned by the system program, was refused and the nonce stayed.
C22_Witness_DataLeftRefused ==
    /\ Executing /\ Invoked /\ BalanceKept
    /\ LeftAs.owner = SYSTEM_PROGRAM_ID /\ ~LeftAs.data_is_empty
    /\ last.err = "NonEmptySignerData"
    /\ one_sig_state.nonce = call.state.nonce

\* The instruction of the request targets this program.
TargetsThisProgram == Built(call).program_id = ID

\* The data of the instruction starts with the discriminator d.
StartsWith(d) ==
    /\ Len(Built(call).data) >= Len(d)
    /\ SubSeq(Built(call).data, 1, Len(d)) = d

\* C23: an execute_transaction whose instruction targets this program with
\* data that starts with execute_transaction's discriminator is refused
\* with Reentrancy, whatever the invocation would have done, and leaves the
\* nonce and the accounts as they were; an instruction of this program with
\* the discriminator of another entry point, or of another program, is
\* never refused with Reentrancy.
C23_ReentrancyRefused ==
    Executing =>
        /\ TargetsThisProgram /\ StartsWith(ExecuteTransaction_DISCRIMINATOR) =>
              /\ last.err = "Reentrancy"
              /\ one_sig_state = call.state
              /\ signer_account = call.one_sig_signer
        /\ ~(TargetsThisProgram /\ StartsWith(ExecuteTransaction_DISCRIMINATOR)) =>
              last.err # "Reentrancy"
        /\ TargetsThisProgram /\ StartsWith(SetConfig_DISCRIMINATOR) =>
              last.err = Ok

\* A nested execute_transaction whose invocation would have failed was
\* refused with Reentrancy, not with the failure of the invocation.
C23_Witness_NestedRefused ==
    /\ Executing /\ TargetsThisProgram
    /\ StartsWith(ExecuteTransaction_DISCRIMINATOR)
    /\ ~call.fx.ok
    /\ last.err = "Reentrancy"
    /\ one_sig_state.nonce = call.state.nonce

(***************************************************************************)
(* Claims about the state written back by execute_transaction, checked     *)
(* under SpecConfig.                                                       *)
(***************************************************************************)
\* The instruction of the request is set_config of this program.
InvokesSetConfig == TargetsThisProgram /\ StartsWith(SetConfig_DISCRIMINATOR)

\* The state as the set_config of the request leaves it.
AsConfigured ==
    SetConfig_apply(call.state, [variant |-> Built(call).data[9],
                                 arg |-> Built(call).data[10]]).state

\* C24: the state a successful execute_transaction of set_config leaves is
\* the state set_config wrote, with the nonce read before the invocation
\* plus one; no field is the one of the copy taken before the invocation
\* unless set_config left it so.
C24_StateRereadAfterAction ==
    Executing /\ InvokesSetConfig /\ last.err = Ok =>
        /\ one_sig_state = [AsConfigured EXCEPT !.nonce = call.state.nonce + 1]
        /\ Config(one_sig_state) = Config(AsConfigured)

\* A successful execute_transaction of set_config left a changed
\* configuration and the next nonce.
C24_Witness_ChangeKept ==
    /\ Executing /\ InvokesSetConfig /\ last.err = Ok
    /\ Config(one_sig_state) # Config(call.state)
    /\ one_sig_state.seed = Hash(2) /\ call.state.seed = Hash(1)
    /\ one_sig_state.nonce = call.state.nonce + 1

(***************************************************************************)
(* SpecRace: requests prepared for any nonce are submitted in any order,   *)
(* one transaction after the other, as the runtime's write lock on the     *)
(* OneSigState account orders them.  call.earlier is the request remembered*)
(* before the step.                                                        *)
(***************************************************************************)
RaceExecuteTransaction(p, track) ==
    /\ one_sig_state.nonce < MaxNonce
    /\ ExecuteTransaction_instruction(p, NoEffect, track)
    /\ call' = [fn |-> "execute_transaction", p |-> p, state |-> one_sig_state,
                earlier |-> tracked]
    /\ UNCHANGED ret

NextRace ==
    \/ \E params \in ConfigInitParams : InitOneSig(params)
    \/ \E track \in BOOLEAN, action \in ReplayActions, nonce \in 0..MaxNonce :
          \E batch \in Batches([Same(one_sig_state, action) EXCEPT !.nonce = nonce]) :
             RaceExecuteTransaction(
                 ExecuteTransactionRequest(1, action, batch,
                                           Signed(one_sig_state, batch.root, now)),
                 track)

SpecRace == InitIdle /\ [][NextRace]_vars

(***************************************************************************)
(* Claims about requests prepared for the same nonce, checked under        *)
(* SpecRace.                                                               *)
(***************************************************************************)
\* The leaf of the request was encoded for this instance and nonce.
PreparedFor(request, nonce) ==
    /\ request # <<>>
    /\ Committed(request[1].merkle_root, request[1].proof, OneSigStateKey,
                 one_sig_state.one_sig_id, nonce, request[1].instruction) = "same"

\* The request of the step and the one that succeeded earlier were prepared
\* for the same nonce.
SameNonceAsEarlier ==
    /\ call.earlier # <<>>
    /\ \E nonce \in 0..MaxNonce :
          PreparedFor(call.earlier, nonce) /\ PreparedFor(Request(call.p), nonce)

\* C25: of two execute_transaction requests prepared for the same nonce, in
\* whichever order they are submitted, the one that comes after the other
\* has succeeded is refused, with InvalidProof as its root is accepted.
C25_OneOfTwoSucceeds ==
    Executing /\ SameNonceAsEarlier => last.err = "InvalidProof"

\* A request for another action, prepared for the nonce of one that had
\* succeeded, was refused at the proof and the nonce stayed.
C25_Witness_SecondRefused ==
    /\ Executing /\ SameNonceAsEarlier
    /\ Request(call.p)[1].instruction # call.earlier[1].instruction
    /\ last.err = "InvalidProof"
    /\ one_sig_state.nonce = call.state.nonce

(***************************************************************************)
(* SpecEvents: execute_transaction with the events of its transaction; ret *)
(* holds the events the latest instruction emitted.                        *)
(***************************************************************************)
EventsExecuteTransaction(p, fx) ==
    /\ initialized
    /\ one_sig_state.nonce < MaxNonce
    /\ \E r \in {ExecuteTransaction_run(one_sig_state, signer_account, p, now, fx,
                                        overflow_checks) :
                     overflow_checks \in Builds(p.transaction.value)} :
          /\ ExecuteTransaction_commit(p, r, FALSE)
          /\ ret' = Emitted(r)
    /\ call' = [fn |-> "execute_transaction", p |-> p, state |-> one_sig_state]
    /\ UNCHANGED <<initialized, merkle_root_states, now>>

NextEvents ==
    \/ \E params \in ConfigInitParams : InitOneSig(params)
    \/ \E action \in ConfigActions \cup {ReenterAction},
          fx \in {NoEffect, [NoEffect EXCEPT !.ok = FALSE]} :
          \E batch \in Batches(Same(one_sig_state, action)) :
             \E presentation \in {Signed(one_sig_state, batch.root, now),
                                  SignedByTooFew(one_sig_state, batch.root, now)} :
                EventsExecuteTransaction(
                    ExecuteTransactionRequest(1, action, batch, presentation), fx)

SpecEvents == InitIdle /\ [][NextEvents]_vars

(***************************************************************************)
(* Claims about the events, checked under SpecEvents.                      *)
(***************************************************************************)
\* The TransactionExecuted events among those the instruction emitted.
Completions == SelectSeq(ret, LAMBDA ev : ev.event = "TransactionExecuted")

\* C26 as stated: a successful execute_transaction emits exactly one
\* TransactionExecuted, with the root used and the nonce stored in the
\* instance after the execution; a refused one emits none.
C26_AsStated ==
    Executing =>
        /\ last.err = Ok =>
              /\ Len(Completions) = 1
              /\ Completions[1].merkle_root = RequestRoot(call.p)[1]
              /\ Completions[1].nonce = one_sig_state.nonce
        /\ last.err # Ok => Completions = <<>>

\* C26: a successful execute_transaction emits exactly one
\* TransactionExecuted, for this OneSigState account, with the root used and
\* the nonce read before the execution (the one of the leaf, one less than
\* the nonce stored afterwards); a refused one emits none.
C26_EventCarriesExecutedNonce ==
    Executing =>
        /\ last.err = Ok =>
              /\ Len(Completions) = 1
              /\ Completions[1].one_sig_account = OneSigStateKey
              /\ Completions[1].merkle_root = RequestRoot(call.p)[1]
              /\ Completions[1].nonce = call.state.nonce
              /\ Completions[1].nonce + 1 = one_sig_state.nonce
        /\ last.err # Ok => Completions = <<>>

\* The second execution, of set_config, emitted ConfigSet and then
\* TransactionExecuted with nonce 1.
C26_Witness_SecondExecution ==
    /\ Executing /\ last.err = Ok
    /\ Len(ret) = 2 /\ ret[1].event = "ConfigSet"
    /\ Completions = <<ret[2]>>
    /\ ret[2].nonce = 1 /\ one_sig_state.nonce = 2

(***************************************************************************)
(* SpecDigest: MerkleValidator::verify_merkle_root called with signatures  *)
(* the first `threshold` signers of the roster made over the digest of a   *)
(* (seed, root, expiry) of their own, on states that differ in seed,       *)
(* roster, threshold and nonce, at different times.                        *)
(***************************************************************************)
DigestRoots == {Hash(1), Hash(2)}

DigestExpiries == {1, 256}

DigestStates ==
    {[ZeroedState EXCEPT !.one_sig_id = 1, !.seed = seed, !.nonce = nonce,
                         !.multisig = [signers |-> signers, threshold |-> threshold]] :
         seed \in Seeds, nonce \in {0, 1}, threshold \in {1, 2},
         signers \in {<<AddressOf(1), AddressOf(2)>>,
                      <<AddressOf(2), AddressOf(1), AddressOf(3)>>}}

DigestCalls ==
    [fn : {"verify_merkle_root"},
     state : DigestStates,
     merkle_root : DigestRoots,
     expiry : DigestExpiries,
     current_timestamp : {0, 1},
     signed : [seed : Seeds, merkle_root : DigestRoots, expiry : DigestExpiries]]

InitDigest ==
    /\ InitInstance
    /\ call \in DigestCalls
    /\ ret = NoRet

CallVerifyMerkleRootDigest ==
    /\ call.fn = "verify_merkle_root"
    /\ ret = NoRet
    /\ ret' = [err |-> MerkleValidator_verify_merkle_root(
                           call.state, call.merkle_root, call.expiry,
                           Signatures(call.state, call.signed.seed, call.signed.merkle_root,
                                      call.signed.expiry, call.state.multisig.threshold),
                           call.current_timestamp)]
    /\ UNCHANGED <<instance_vars, call>>

NextDigest == CallVerifyMerkleRootDigest

SpecDigest == InitDigest /\ [][NextDigest]_vars

(***************************************************************************)
(* Claims about the digest, checked under SpecDigest.                      *)
(***************************************************************************)
\* The (seed, root, expiry) the call is about and the one that was signed.
Presented == [seed |-> call.state.seed, merkle_root |-> call.merkle_root,
              expiry |-> call.expiry]

DigestOf(t) == sign_digest(t.seed, t.merkle_root, t.expiry)

\* C27: the signatures are accepted exactly when they were made over the
\* (seed, root, expiry) presented, whatever the roster, the threshold, the
\* nonce and the time are; two triples have the same digest only if they
\* are the same; and the digest is H(prefix, DOMAIN_SEPARATOR, H(type hash,
\* seed, root, 32 bytes of expiry)), the 32 bytes being 16 zero bytes and
\* the expiry in 16 big-endian bytes.
C27_DigestOfTriple ==
    call.fn = "verify_merkle_root" /\ Returned =>
        /\ ret.err = Ok <=> Presented = call.signed
        /\ DigestOf(Presented) = DigestOf(call.signed) <=> Presented = call.signed
        /\ \E inner \in {DigestOf(Presented).h[2]} :
              /\ DigestOf(Presented).b1 = <<25, 1>>
              /\ DigestOf(Presented).h = <<DOMAIN_SEPARATOR, inner>>
              /\ DigestOf(Presented).b2 = <<>>
              /\ inner.b1 = <<>>
              /\ inner.h = <<SIGN_MERKLE_ROOT_TYPE_HASH, Presented.seed,
                             Presented.merkle_root>>
              /\ Len(inner.b2) = 32
              /\ \A i \in 1..24 : inner.b2[i] = 0
              /\ from_be_bytes(SubSeq(inner.b2, 25, 32)) = Presented.expiry

\* Signatures made over the same seed and root with another expiry were
\* refused, on the instance with three signers at nonce 1.
C27_Witness_OtherExpiryRefused ==
    /\ call.fn = "verify_merkle_root" /\ Returned
    /\ call.signed.seed = Presented.seed
    /\ call.signed.merkle_root = Presented.merkle_root
    /\ call.signed.expiry # Presented.expiry
    /\ Len(call.state.multisig.signers) = 3 /\ call.state.nonce = 1
    /\ ret.err = "MissingSigner"

(***************************************************************************)
(* Claims about the recovery byte, checked under SpecSig.                  *)
(***************************************************************************)
\* The blob with every recovery byte 0, 1, 27 or 28 rewritten to base + its
\* recovery id (base 0: raw, base 27: Ethereum-style); the 64 bytes (r, s)
\* and every other recovery byte stay.
WithRecoveryBytes(signatures, base) ==
    [signatures EXCEPT !.chunks =
        [i \in DOMAIN signatures.chunks |->
            IF signatures.chunks[i].v \in {0, 1, 27, 28}
            THEN [signatures.chunks[i] EXCEPT !.v = base + (signatures.chunks[i].v % 27)]
            ELSE signatures.chunks[i]]]

\* Recovery bytes around the two ranges.
RecoveryBytes == {0, 1, 2, 3, 26, 27, 28, 29, 255}

\* What recover_signer makes of the outcome of the syscall.
Recovered(rec) ==
    IF rec.err # Ok THEN [err |-> "FailedSignatureRecovery", pubkey |-> 0] ELSE rec

\* C29: verify_signatures gives the same result for the blob as it is, for
\* the blob with raw recovery bytes (0/1) and for the blob with
\* Ethereum-style recovery bytes (27/28) over the same (r, s); for every
\* (r, s) of the blob, recovery byte 27 recovers what 0 does and 28 what 1
\* does, and any other recovery byte reaches secp256k1_recover as it is.
C29_RecoveryByteNormalized ==
    call.fn = "verify_signatures" /\ Returned =>
        /\ ret = verify_signatures(call.threshold, call.signers, call.digest,
                                   WithRecoveryBytes(call.signatures, 0))
        /\ ret = verify_signatures(call.threshold, call.signers, call.digest,
                                   WithRecoveryBytes(call.signatures, 27))
        /\ \A i \in ChunkIndices :
              \A v \in RecoveryBytes :
                 \E rs \in {call.signatures.chunks[i].rs} :
                    /\ v \in {27, 28} =>
                          recover_signer(call.digest, [rs |-> rs, v |-> v])
                             = recover_signer(call.digest, [rs |-> rs, v |-> v - 27])
                    /\ v \notin {27, 28} =>
                          recover_signer(call.digest, [rs |-> rs, v |-> v])
                             = Recovered(secp256k1_recover(call.digest, v, rs))

\* A blob of one Ethereum-style chunk (28) and one raw chunk (0), by the two
\* signers of the roster, was accepted at threshold 2.
C29_Witness_MixedBlobAccepted ==
    /\ call.fn = "verify_signatures" /\ Returned
    /\ call.threshold = 2
    /\ Len(call.signatures.chunks) = 2 /\ call.signatures.rem = 0
    /\ call.signatures.chunks[1].v = 28
    /\ call.signatures.chunks[2].v = 0
    /\ ret.err = Ok

(***************************************************************************)
(* SpecFrame: every instruction on an instance, execute_transaction        *)
(* running each variant of set_config.                                     *)
(***************************************************************************)
FrameInitParams ==
    [one_sig_id : {2},
     seed : {Hash(1)},
     threshold : {2},
     signers : {<<AddressOf(1), AddressOf(2)>>},
     executors : {<<1>>},
     executor_required : {FALSE}]

FrameActions ==
    {SetConfigAction(AddSigner, AddressOf(3)),
     SetConfigAction(RemoveSigner, AddressOf(2)),
     SetConfigAction(SetThreshold, 1),
     SetConfigAction(SetSeed, 2),
     SetConfigAction(AddExecutor, 2),
     SetConfigAction(RemoveExecutor, 2),
     SetConfigAction(SetExecutorRequired, 1),
     CallAction(0, TRUE)}

NextFrame ==
    \/ \E params \in FrameInitParams : InitOneSig(params)
    \/ \E action \in FrameActions :
          \E batch \in {Alone(Same(one_sig_state, action))} :
             CallExecuteTransaction(
                 ExecuteTransactionRequest(1, action, batch,
                                           Signed(one_sig_state, batch.root, now)),
                 NoEffect)
    \/ \E batch \in {Alone(Same(one_sig_state, CallAction(0, TRUE)))} :
          CallVerifyMerkleRoot(1, Signed(one_sig_state, batch.root,
                                         now).merkle_root_verification[1])
    \/ \E signer \in Callers, merkle_root_state \in merkle_root_states :
          CallCloseMerkleRoot(signer, merkle_root_state)
    \/ Tick

SpecFrame == InitIdle /\ [][NextFrame]_vars

(***************************************************************************)
(* Claims about what each instruction leaves alone, checked under          *)
(* SpecFrame.                                                              *)
(***************************************************************************)
\* The fields of OneSigState, and the one each variant of set_config writes.
StateFields ==
    {"one_sig_id", "bump", "nonce", "seed", "signers", "threshold", "executors",
     "executor_required"}

FieldOf(state, f) ==
    CASE f = "one_sig_id" -> state.one_sig_id
      [] f = "bump" -> state.bump
      [] f = "nonce" -> state.nonce
      [] f = "seed" -> state.seed
      [] f = "signers" -> state.multisig.signers
      [] f = "threshold" -> state.multisig.threshold
      [] f = "executors" -> state.executors.executors
      [] f = "executor_required" -> state.executors.executor_required

OwnField(variant) ==
    CASE variant \in {AddSigner, RemoveSigner} -> "signers"
      [] variant = SetThreshold -> "threshold"
      [] variant = SetSeed -> "seed"
      [] variant \in {AddExecutor, RemoveExecutor} -> "executors"
      [] variant = SetExecutorRequired -> "executor_required"

\* The fields in which two states differ.
Changed(before, after) == {f \in StateFields : FieldOf(before, f) # FieldOf(after, f)}

\* The step is a successful execute_transaction of set_config.
ConfiguredIn(c, l) ==
    /\ l.op = "execute_transaction" /\ l.err = Ok
    /\ c.fn = "execute_transaction"
    /\ Built(c).program_id = ID
    /\ SubSeq(Built(c).data, 1, 8) = SetConfig_DISCRIMINATOR

\* C30: once the instance is initialized no step changes one_sig_id or
\* bump; a step that runs a variant of set_config changes, besides the
\* nonce execute_transaction raises by one, at most the field of that
\* variant (add signer and remove signer the signers and not the threshold,
\* set threshold the threshold, set seed the seed, add executor and remove
\* executor the executors, set executor required the flag); every other
\* step changes no field but the nonce.
C30_FrameOfSetConfig ==
    [][initialized =>
          /\ Changed(one_sig_state, one_sig_state') \cap {"one_sig_id", "bump"} = {}
          /\ ConfiguredIn(call', last') =>
                /\ Changed(one_sig_state, one_sig_state')
                      \subseteq {"nonce", OwnField(Built(call').data[9])}
                /\ one_sig_state'.nonce = one_sig_state.nonce + 1
          /\ ~ConfiguredIn(call', last') =>
                Changed(one_sig_state, one_sig_state') \subseteq {"nonce"}]_vars

\* A signer was added to the instance with id 2: three signers, the
\* threshold still 2.
C30_Witness_SignerAdded ==
    /\ ConfiguredIn(call, last)
    /\ Built(call).data[9] = AddSigner
    /\ one_sig_state.one_sig_id = 2
    /\ Len(one_sig_state.multisig.signers) = 3
    /\ Len(call.state.multisig.signers) = 2
    /\ one_sig_state.multisig.threshold = 2

(***************************************************************************)
(* SpecErrors: requests at the edges of what the handlers index and        *)
(* convert: an instruction of this program with data shorter than a        *)
(* discriminator, a request with no remaining account, and a root signed   *)
(* with a negative expiry.                                                 *)
(***************************************************************************)
ShortAction == [ReenterAction EXCEPT !.ix_data = <<1, 2>>]

\* A root signed in the request by the threshold, with the given expiry.
SignedUntil(state, merkle_root, expiry) ==
    [merkle_root_verification |->
         <<VerifyMerkleRootParams(state, state.seed, merkle_root, expiry,
                                  state.multisig.threshold)>>,
     merkle_root_state |-> <<>>]

\* The request with no remaining account at all.
WithoutAccounts(p) == [p EXCEPT !.remaining_accounts = <<>>]

NextErrors ==
    \/ \E params \in ConfigInitParams : InitOneSig(params)
    \/ \E action \in {CallAction(0, TRUE), ShortAction}, expiry \in {now, -1} :
          \E batch \in {Alone(Same(one_sig_state, action))} :
             \E p \in {ExecuteTransactionRequest(
                           1, action, batch,
                           SignedUntil(one_sig_state, batch.root, expiry))} :
                \/ CallExecuteTransaction(p, NoEffect)
                \/ CallExecuteTransaction(WithoutAccounts(p), NoEffect)
    \/ \E expiry \in {now, -1} :
          \E batch \in {Alone(Same(one_sig_state, CallAction(0, TRUE)))} :
             CallVerifyMerkleRoot(1, SignedUntil(one_sig_state, batch.root,
                                                 expiry).merkle_root_verification[1])
    \/ Tick

SpecErrors == InitIdle /\ [][NextErrors]_vars

(***************************************************************************)
(* Claims about how requests fail, checked under SpecErrors.               *)
(***************************************************************************)
\* The root of the request was signed with a negative expiry.
NegativeExpiry ==
    \/ Executing /\ call.p.merkle_root_verification # <<>>
                 /\ call.p.merkle_root_verification[1].expiry < 0
    \/ Verifying /\ call.params.expiry < 0

\* C31 as stated: every execute_transaction and verify_merkle_root that
\* fails returns an error value; none aborts the program, whether the
\* instruction targets this program with data shorter than a
\* discriminator, the request has no remaining account, or the expiry is
\* negative.
C31_AsStated ==
    Executing \/ Verifying => last.err # "panic"

\* The part of C31 that holds: a negative expiry is refused with
\* ExpiredMerkleRoot, the clock being at 0 or later (verify_merkle_root of
\* a root that has a record is refused before that, the account being in
\* use).
C31_NegativeExpiryRefused ==
    NegativeExpiry => last.err \in {"ExpiredMerkleRoot", "AccountAlreadyInUse"}

\* The aborts there are: the data of an instruction of this program shorter
\* than a discriminator, and no remaining account, each once the root has
\* been accepted.
C31_AbortsOnlyWhenIndexing ==
    Executing =>
        (last.err = "panic" <=>
            /\ ~NegativeExpiry
            /\ \/ call.p.remaining_accounts = <<>>
               \/ TargetsThisProgram /\ Len(Built(call).data) < 8)

(***************************************************************************)
(* SpecBoth: execute_transaction with a signed root, alone and next to a   *)
(* record: one of the instance (of this or an earlier root, expired or     *)
(* not, of the live seed or an earlier one) or one of another instance.    *)
(***************************************************************************)
\* The presentation with the record m passed along.
WithRecordOf(presentation, m) == [presentation EXCEPT !.merkle_root_state = <<m>>]

NextBoth ==
    \/ \E params \in ConfigInitParams : InitOneSig(params)
    \/ \E batch \in {Alone(Same(one_sig_state, CallAction(0, TRUE)))} :
          CallVerifyMerkleRoot(1, Signed(one_sig_state, batch.root,
                                         now).merkle_root_verification[1])
    \/ \E action \in PathActions :
          \E batch \in {Alone(Same(one_sig_state, action))} :
             \E signed \in {Signed(one_sig_state, batch.root, now),
                            SignedByTooFew(one_sig_state, batch.root, now)} :
                \/ CallExecuteTransaction(
                       ExecuteTransactionRequest(1, action, batch, signed), NoEffect)
                \/ \E m \in merkle_root_states
                            \cup RecordsOfOther(one_sig_state, batch.root, now) :
                      CallExecuteTransaction(
                          ExecuteTransactionRequest(1, action, batch,
                                                    WithRecordOf(signed, m)),
                          NoEffect)
    \/ Tick

SpecBoth == InitIdle /\ [][NextBoth]_vars

(***************************************************************************)
(* Claims about a record passed next to a signed root, checked under       *)
(* SpecBoth.                                                               *)
(***************************************************************************)
\* What the request of call gives when no record is passed with it.
WithoutRecord ==
    ExecuteTransaction_run(call.state, signer_account,
                           [call.p EXCEPT !.merkle_root_state = <<>>], call.now,
                           NoEffect, TRUE)

\* The step ended as the request without the record ends.
SameAsWithoutRecord ==
    /\ last.err = WithoutRecord.err
    /\ one_sig_state = commit(WithoutRecord.err, call.state, WithoutRecord.state)

\* The record of the request is unexpired and of the live seed.
RecordCurrent ==
    /\ call.p.merkle_root_state[1].expiry >= call.now
    /\ call.p.merkle_root_state[1].seed = call.state.seed

\* C32 as stated: an execute_transaction with a signed root ends the same
\* whether or not a record is passed with it, whatever the record holds.
C32_AsStated ==
    Executing /\ Direct /\ WithRecord => SameAsWithoutRecord

\* C32: an execute_transaction with a signed root and a record of the
\* instance that is unexpired and of the live seed ends as it does without
\* the record, whatever the root of the record is; with a record that is
\* not at the address derived for the instance, or expired, or of another
\* seed, it is refused with ConstraintSeeds, ExpiredMerkleRoot or
\* SeedMismatch and nothing changes, whatever was signed.
C32_RecordIgnoredWhenValid ==
    Executing /\ Direct /\ WithRecord =>
        /\ OwnRecord /\ RecordCurrent => SameAsWithoutRecord
        /\ ~(OwnRecord /\ RecordCurrent) =>
              /\ last.err \in {"ConstraintSeeds", "ExpiredMerkleRoot", "SeedMismatch"}
              /\ one_sig_state = call.state
        /\ OwnRecord /\ ~RecordCurrent =>
              last.err \in {"ExpiredMerkleRoot", "SeedMismatch"}

\* An execute_transaction with a signed root succeeded next to a valid
\* record of another root.
C32_Witness_OtherRootRecord ==
    /\ Executing /\ Direct /\ WithRecord
    /\ OwnRecord /\ RecordCurrent
    /\ call.p.merkle_root_state[1].merkle_root
          # call.p.merkle_root_verification[1].merkle_root
    /\ last.err = Ok

(***************************************************************************)
(* SpecApproved: roots signed and stored for this nonce and the next, the  *)
(* roster and the threshold changed by executed set_config calls, and      *)
(* requests executed along both paths.  ret holds the history: each        *)
(* successful verify_merkle_root, with the state it ran against.           *)
(***************************************************************************)
ApprovedInitParams ==
    [one_sig_id : {1},
     seed : {Hash(1)},
     threshold : {2},
     signers : {<<AddressOf(1), AddressOf(2), AddressOf(3)>>},
     executors : {<<1>>},
     executor_required : {FALSE}]

ApprovedActions ==
    {CallAction(0, TRUE),
     SetConfigAction(RemoveSigner, AddressOf(1)),
     SetConfigAction(SetThreshold, 3),
     SetConfigAction(SetSeed, 2)}

InitApproved ==
    /\ InitInstance
    /\ call = NoCall
    /\ ret = {}

\* verify_merkle_root, remembered in ret when it succeeds.
ApprovedVerifyMerkleRoot(payer, params) ==
    /\ VerifyMerkleRoot_instruction(payer, params)
    /\ call' = [fn |-> "verify_merkle_root", payer |-> payer, params |-> params,
                state |-> one_sig_state, merkle_root_states |-> merkle_root_states,
                now |-> now]
    /\ ret' = IF last'.err = Ok THEN ret \cup {[state |-> one_sig_state, v |-> params]}
              ELSE ret

\* The presentation of the record m alone.
Stored(m) == [merkle_root_verification |-> <<>>, merkle_root_state |-> <<m>>]

NextApproved ==
    \/ \E params \in ApprovedInitParams : InitOneSig(params)
    \/ \E nonce \in {one_sig_state.nonce, one_sig_state.nonce + 1} :
          \E batch \in {Alone([Same(one_sig_state, CallAction(0, TRUE))
                                  EXCEPT !.nonce = nonce])} :
             \E signed \in {Signed(one_sig_state, batch.root, now),
                            SignedByTooFew(one_sig_state, batch.root, now)} :
                ApprovedVerifyMerkleRoot(1, signed.merkle_root_verification[1])
    \/ \E action \in ApprovedActions :
          \E batch \in {Alone(Same(one_sig_state, action))} :
             \E signed \in {Signed(one_sig_state, batch.root, now),
                            SignedByTooFew(one_sig_state, batch.root, now)} :
                CallExecuteTransaction(
                    ExecuteTransactionRequest(1, action, batch, signed), NoEffect)
    \/ \E m \in merkle_root_states :
          \E batch \in {Alone(Same(one_sig_state, CallAction(0, TRUE)))} :
             CallExecuteTransaction(
                 ExecuteTransactionRequest(1, CallAction(0, TRUE), batch, Stored(m)),
                 NoEffect)
    \/ Tick

SpecApproved == InitApproved /\ [][NextApproved]_vars

(***************************************************************************)
(* Claims about who approved the root of a successful execution, checked   *)
(* under SpecApproved.                                                     *)
(***************************************************************************)
\* The successful verify_merkle_root calls that made the record m.
ApprovalsOf(m) ==
    {a \in ret : /\ a.v.merkle_root = m.merkle_root
                 /\ a.v.expiry = m.expiry
                 /\ a.state.seed = m.seed}

\* C33: a successful execute_transaction with a signed root had it signed
\* by the threshold of distinct signers of the live roster; one with a
\* record had the root of the record signed by the threshold of the roster
\* in force in the verify_merkle_root that made the record; and a request
\* with a record of the instance, unexpired and of the live seed, is not
\* refused for its root, whatever the roster and the threshold have become.
C33_ApprovedByThreshold ==
    /\ Executing /\ last.err = Ok /\ Direct =>
          SignedByRoster(call.state, call.p.merkle_root_verification[1])
    /\ Executing /\ last.err = Ok /\ ~Direct =>
          /\ WithRecord
          /\ ApprovalsOf(call.p.merkle_root_state[1]) # {}
          /\ \A a \in ApprovalsOf(call.p.merkle_root_state[1]) :
                SignedByRoster(a.state, a.v)
    /\ Executing /\ ~Direct /\ WithRecord /\ OwnRecord /\ RecordCurrent =>
          last.err \notin RootRejections \cup {"ConstraintSeeds"}

\* An execute_transaction with a record succeeded although the signatures
\* the record was made with no longer satisfy the roster and the threshold.
C33_Witness_RecordOutlivesRoster ==
    /\ Executing /\ ~Direct /\ WithRecord /\ last.err = Ok
    /\ \A a \in ApprovalsOf(call.p.merkle_root_state[1]) :
          /\ a.state.multisig # call.state.multisig
          /\ ~SignedByRoster(call.state, a.v)

(***************************************************************************)
(* SpecOrder: requests whose leaves were encoded for any nonce, alone or   *)
(* in a batch with the neighbouring nonce, submitted in any order with the *)
(* root signed or stored.  ret holds the history: the nonce in the leaf of *)
(* each successful execute_transaction, in the order they ran.             *)
(***************************************************************************)
InitOrder ==
    /\ InitInstance
    /\ call = NoCall
    /\ ret = <<>>

\* The nonce in the leaf the request commits to, or -1 if it commits to no
\* leaf.
CommittedNonce(request) ==
    LET leaf(l) == IF l = <<>> THEN -1
                   ELSE IF ~IsLeafHash(l[1]) THEN -1
                   ELSE LeafFields(l[1]).nonce
    IN  IF request = <<>> THEN -1
        ELSE leaf(ProvenLeaf(request[1].merkle_root, request[1].proof,
                             Len(request[1].proof)))

\* execute_transaction, its leaf's nonce appended to ret when it succeeds.
OrderExecuteTransaction(p) ==
    /\ one_sig_state.nonce < MaxNonce
    /\ ExecuteTransaction_instruction(p, NoEffect, FALSE)
    /\ call' = [fn |-> "execute_transaction", p |-> p, state |-> one_sig_state,
                merkle_root_states |-> merkle_root_states, now |-> now]
    /\ ret' = IF last'.err = Ok THEN Append(ret, CommittedNonce(Request(p))) ELSE ret

NextOrder ==
    \/ \E params \in ConfigInitParams : InitOneSig(params)
    \/ \E batch \in {Pair(Same(one_sig_state, CallAction(0, TRUE)))} :
          VerifyMerkleRoot(1, Signed(one_sig_state, batch.root,
                                     now).merkle_root_verification[1])
    \/ \E action \in ReplayActions, nonce \in 0..MaxNonce :
          \E batch \in Batches([Same(one_sig_state, action) EXCEPT !.nonce = nonce]) :
             \E presentation \in {Signed(one_sig_state, batch.root, now)}
                                 \cup {Stored(m) : m \in merkle_root_states} :
                OrderExecuteTransaction(
                    ExecuteTransactionRequest(1, action, batch, presentation))

SpecOrder == InitOrder /\ [][NextOrder]_vars

(***************************************************************************)
(* Claims about the order in which leaves are consumed, checked under      *)
(* SpecOrder.                                                              *)
(***************************************************************************)
\* C34: the nonces in the leaves of the successful execute_transaction
\* calls of an instance are 0, 1, 2, ... in the order they ran, up to the
\* nonce of the instance; a request succeeds only if its leaf was encoded
\* for the nonce the instance had when it ran; and a request whose leaf
\* was encoded for a lower nonce is refused and changes nothing.
C34_ConsumedInOrder ==
    /\ ret = [i \in 1..one_sig_state.nonce |-> i - 1]
    /\ Executing /\ last.err = Ok =>
          CommittedNonce(Request(call.p)) = call.state.nonce
    /\ Executing /\ CommittedNonce(Request(call.p)) \in 0..(call.state.nonce - 1) =>
          /\ last.err # Ok
          /\ one_sig_state = call.state

\* After the execution of the leaf of nonce 0, a request whose leaf was
\* encoded for nonce 0, with its root in a record that is still accepted,
\* was refused at the proof.
C34_Witness_EarlierLeafRefused ==
    /\ Executing /\ ~Direct /\ WithRecord
    /\ ret = <<0>>
    /\ CommittedNonce(Request(call.p)) = 0
    /\ last.err = "InvalidProof"

(***************************************************************************)
(* Claims about a record being usable or closable, checked under           *)
(* SpecRecords.                                                            *)
(***************************************************************************)
\* At time t the record m passes the constraints of execute_transaction,
\* its seed being the live one.
Usable(m, t) ==
    ExecuteTransaction_constraints([one_sig_state EXCEPT !.seed = m.seed], <<m>>, t) = Ok

\* At time t the record m passes the constraints of close_merkle_root
\* called by its rent_payer.
Closable(m, t) == CloseMerkleRoot_constraints(m.rent_payer, m, t) = Ok

\* C35: at every time, each record of the instance, from the step that
\* stores it on, either passes the expiry constraint of execute_transaction
\* or can be closed by its rent_payer, never both and never neither; a
\* record that can be closed can still be closed, and cannot be used, at
\* every later time and after every step that leaves it there; a successful close_merkle_root is of a record that
\* execute_transaction refuses at that time, and a record that
\* execute_transaction accepts is one close_merkle_root refuses.
C35_UsableOrClosable ==
    [][/\ \A m \in merkle_root_states' \ merkle_root_states :
             /\ \A t \in 0..MaxTime : Usable(m, t) # Closable(m, t)
             /\ \A t \in 0..MaxTime :
                   \A later \in t..MaxTime :
                      Closable(m, t) => Closable(m, later) /\ ~Usable(m, later)
       /\ \A m \in merkle_root_states \cap merkle_root_states' :
             /\ Usable(m, now') # Closable(m, now')
             /\ Closable(m, now) => Closable(m, now')
       /\ now' >= now
       /\ last'.op = "close_merkle_root" /\ call'.fn = "close_merkle_root"
             /\ last'.err = Ok =>
             ~Usable(call'.merkle_root_state, now)
       /\ last'.op = "execute_transaction" /\ call'.fn = "execute_transaction"
             /\ call'.p.merkle_root_state # <<>>
             /\ last'.err \notin {"ConstraintSeeds", "ExpiredMerkleRoot", "SeedMismatch"} =>
             ~Closable(call'.p.merkle_root_state[1], now)]_vars

\* A record that was stored with expiry = now, and usable then, was refused
\* by execute_transaction one tick later, when its rent_payer can close it.
C35_Witness_ExpiredRecordClosable ==
    /\ Executing /\ ~Direct /\ WithRecord /\ OwnRecord
    /\ call.p.merkle_root_state[1] \in merkle_root_states
    /\ call.p.merkle_root_state[1].expiry = call.now - 1
    /\ Usable(call.p.merkle_root_state[1], call.now - 1)
    /\ Closable(call.p.merkle_root_state[1], call.now)
    /\ last.err = "ExpiredMerkleRoot"

(***************************************************************************)
(* SpecHanded: execute_transaction with remaining accounts of every kind   *)
(* (the PDA, the executor, another account; each signing the transaction   *)
(* or not, writable or not), for another program and for set_config, on a  *)
(* root that commits to the instruction as the program builds it or to the *)
(* instruction with the signer flags as supplied.                          *)
(***************************************************************************)
HandedKeys == {OneSigSignerKey, 1, OtherStateKey}

\* An AccountInfo with the is_signer it has in the transaction.
HandedAccountInfo(pubkey, is_signer, is_writable) ==
    [pubkey |-> pubkey, is_signer |-> is_signer, is_writable |-> is_writable]

HandedAccountInfos ==
    {HandedAccountInfo(pubkey, is_signer, is_writable) :
         pubkey \in HandedKeys, is_signer \in BOOLEAN, is_writable \in BOOLEAN}

\* A call of another program handed one or two accounts, and set_config
\* handed the PDA or the executor in the signer's place.
HandedActions ==
    {[remaining_accounts |-> <<HandedAccountInfo(OtherProgram, FALSE, FALSE)>> \o accounts,
      ix_data |-> <<7>>, value |-> 0] :
         accounts \in {<<a>> : a \in HandedAccountInfos}
                      \cup {<<a, b>> : a \in HandedAccountInfos,
                                       b \in {HandedAccountInfo(1, TRUE, FALSE)}}}
    \cup {[remaining_accounts |-> <<HandedAccountInfo(ID, FALSE, FALSE),
                                    HandedAccountInfo(pubkey, TRUE, FALSE),
                                    HandedAccountInfo(OneSigStateKey, FALSE, TRUE)>>,
           ix_data |-> SetConfig_DISCRIMINATOR \o <<SetSeed, 2>>, value |-> 0] :
              pubkey \in {OneSigSignerKey, 1}}

\* The instruction with the signer flags the supplied accounts have.
AsSupplied(action) ==
    [program_id |-> action.remaining_accounts[1].pubkey,
     accounts |-> [i \in 1..(Len(action.remaining_accounts) - 1) |->
                     action.remaining_accounts[i + 1]],
     data |-> action.ix_data,
     value |-> action.value]

\* The roots signed for the action: the leaf of the instruction as
\* build_instruction makes it, and the leaf of the instruction as supplied.
HandedBatches(state, action) ==
    {Alone(Same(state, action)),
     [root |-> encode_leaf(OneSigStateKey, state.one_sig_id, state.nonce, AsSupplied(action)),
      proof |-> <<>>]}

NextHanded ==
    \/ \E params \in ConfigInitParams : InitOneSig(params)
    \/ \E action \in HandedActions, fx \in {NoEffect, [NoEffect EXCEPT !.ok = FALSE]} :
          \E batch \in HandedBatches(one_sig_state, action) :
             CallExecuteTransaction(
                 ExecuteTransactionRequest(1, action, batch,
                                           Signed(one_sig_state, batch.root, now)),
                 fx)

SpecHanded == InitIdle /\ [][NextHanded]_vars

(***************************************************************************)
(* Claims about the instruction that is encoded and invoked, checked under *)
(* SpecHanded.                                                             *)
(***************************************************************************)
\* The instruction execute_instruction hands to invoke_signed.
InvokedInstruction == Instruction_from(Built(call)).solana_ix

\* execute_transaction got as far as invoke_signed.
HandedOver ==
    last.err \in {Ok, "CpiError", "ExcessiveBalanceDeduction", "InvalidSignerOwner",
                  "NonEmptySignerData"}

\* C36: the instruction handed to invoke_signed names the first remaining
\* account as its program and the others, in order, as its accounts, with
\* the data of the request; an account of it is a signer exactly when it
\* is the PDA of the instance, whatever it is in the transaction; and
\* whenever invoke_signed is reached, the leaf the verified root commits to
\* is the encoding of that program, those accounts and flags, that data and
\* the value of the request.
C36_OnlyAgentSigns ==
    Executing /\ call.p.remaining_accounts # <<>> =>
        /\ InvokedInstruction.program_id = call.p.remaining_accounts[1].pubkey
        /\ InvokedInstruction.data = call.p.transaction.ix_data
        /\ Len(InvokedInstruction.accounts) = Len(call.p.remaining_accounts) - 1
        /\ \A i \in DOMAIN InvokedInstruction.accounts :
              /\ InvokedInstruction.accounts[i].pubkey
                    = call.p.remaining_accounts[i + 1].pubkey
              /\ InvokedInstruction.accounts[i].is_writable
                    = call.p.remaining_accounts[i + 1].is_writable
              /\ InvokedInstruction.accounts[i].is_signer
                    <=> InvokedInstruction.accounts[i].pubkey = OneSigSignerKey
        /\ HandedOver =>
              Committed(RequestRoot(call.p)[1], call.p.transaction.proof, OneSigStateKey,
                        call.state.one_sig_id, call.state.nonce,
                        [program_id |-> InvokedInstruction.program_id,
                         accounts |-> InvokedInstruction.accounts,
                         data |-> InvokedInstruction.data,
                         value |-> call.p.transaction.value]) = "same"
        /\ AsSupplied([remaining_accounts |-> call.p.remaining_accounts,
                       ix_data |-> call.p.transaction.ix_data,
                       value |-> call.p.transaction.value]) # Built(call)
              /\ RequestRoot(call.p)[1] # Alone(Same(call.state,
                       [remaining_accounts |-> call.p.remaining_accounts,
                        ix_data |-> call.p.transaction.ix_data,
                        value |-> call.p.transaction.value])).root =>
              last.err = "InvalidProof"

\* A request that supplied the executor's account as a signer of the
\* transaction succeeded, and the invoked instruction has that account
\* without the signer flag, next to the PDA with it.
C36_Witness_ExecutorNotSigner ==
    /\ Executing /\ last.err = Ok
    /\ Len(call.p.remaining_accounts) = 3
    /\ call.p.remaining_accounts[2].pubkey = OneSigSignerKey
    /\ ~call.p.remaining_accounts[2].is_signer
    /\ call.p.remaining_accounts[3].pubkey = call.p.executor
    /\ call.p.remaining_accounts[3].is_signer
    /\ InvokedInstruction.accounts[1].is_signer
    /\ ~InvokedInstruction.accounts[2].is_signer

====
